---- MODULE Spec2Model ----
(***************************************************************************)
(* Model of the document retrieval engine of llmwebui (js/rag.js,          *)
(* class RAGManager) together with the generic key/value methods of the    *)
(* storage layer it persists through (js/storage.js, Storage.get/set).     *)
(*                                                                         *)
(* Text is a sequence of one-character strings, so that the chunker and    *)
(* the retriever work on characters as the JavaScript does.                *)
(***************************************************************************)
EXTENDS Integers, Sequences, FiniteSets, TLC

\* ------------------------------------------------------------------ bounds
\* Largest number of Documents in the collection plus addDocument calls in flight.
MaxDocs == 2
\* Largest number of Documents in a collection handed to the retriever alone.
MaxRetrieveDocs == 2
\* Largest number of localStorage writes that fail in one run.
MaxWriteFailures == 1
\* Number of distinct values Date.now() may return.
MaxTime == 2
\* Largest topK passed to retrieveContext.
MaxTopK == 3
\* Largest number of Documents in the collections the scorer is run on.
MaxScoreDocs == 2
\* Number of filler sentences in the long text file.
FillerCount == 5

\* ------------------------------------------------------- program constants
\* chunkText(content, 500) in addDocument.
AddChunkSize == 500
\* Default of the overlap parameter of chunkText.
DefaultOverlap == 50
\* Default of the topK parameter of retrieveContext.
DefaultTopK == 3
\* overlap / 5 : characters per overlap word.
CharsPerWord == 5
\* filter(t => t.length > 2)
MinTermLength == 2

\* ------------------------------------------------------------ text helpers
Terminators == {".", "!", "?"}
Whitespace == {" ", "\n", "\t"}

MinOf(S) == CHOOSE x \in S : \A y \in S : x <= y

RECURSIVE Rep(_, _)
Rep(s, n) == IF n <= 0 THEN <<>> ELSE s \o Rep(s, n - 1)

\* String.prototype.trim: from the first to the last non-whitespace character.
Trim(s) ==
  LET keep == {i \in 1..Len(s) : s[i] \notin Whitespace}
  IN IF keep = {} THEN <<>>
     ELSE LET first == CHOOSE i \in keep : \A j \in 1..(i - 1) : s[j] \in Whitespace
              last == CHOOSE i \in keep : \A j \in (i + 1)..Len(s) : s[j] \in Whitespace
          IN SubSeq(s, first, last)

\* String.prototype.split(' '): the pieces between single spaces, empty
\* pieces kept.  Computed by halving at the middle separator.
RECURSIVE SplitSpace(_)
SplitSpace(s) ==
  LET sp == {i \in 1..Len(s) : s[i] = " "}
  IN IF sp = {} THEN <<s>>
     ELSE LET half == Cardinality(sp) \div 2
              p == CHOOSE x \in sp : Cardinality({q \in sp : q < x}) = half
          IN SplitSpace(SubSeq(s, 1, p - 1)) \o SplitSpace(SubSeq(s, p + 1, Len(s)))

\* Array.prototype.join(' '), computed by halving.
RECURSIVE JoinSpace(_)
JoinSpace(words) ==
  IF Len(words) = 0 THEN <<>>
  ELSE IF Len(words) = 1 THEN words[1]
  ELSE LET h == Len(words) \div 2
       IN JoinSpace(SubSeq(words, 1, h)) \o <<" ">>
            \o JoinSpace(SubSeq(words, h + 1, Len(words)))

\* Array.prototype.slice(start): a negative start counts from the end, and
\* -0 is 0, so slice(-0) is the whole array.
SliceFrom(arr, start) ==
  LET n == Len(arr)
      from == IF start < 0 THEN (IF n + start < 0 THEN 0 ELSE n + start)
              ELSE (IF start > n THEN n ELSE start)
  IN SubSeq(arr, from + 1, n)

\* Array.prototype.slice(0, end): a negative end counts from the end.
SliceTo(arr, end) ==
  LET n == Len(arr)
      to == IF end < 0 THEN (IF n + end < 0 THEN 0 ELSE n + end)
            ELSE (IF end > n THEN n ELSE end)
  IN SubSeq(arr, 1, to)

\* String.prototype.toLowerCase on the letters of the model's alphabet.
LowerOf ==
  ("A" :> "a") @@ ("B" :> "b") @@ ("C" :> "c") @@ ("D" :> "d") @@ ("E" :>
  "e") @@ ("F" :> "f") @@ ("G" :> "g") @@ ("H" :> "h") @@ ("I" :> "i") @@
  ("J" :> "j") @@ ("K" :> "k") @@ ("L" :> "l") @@ ("M" :> "m") @@ ("N" :>
  "n") @@ ("O" :> "o") @@ ("P" :> "p") @@ ("Q" :> "q") @@ ("R" :> "r") @@
  ("S" :> "s") @@ ("T" :> "t") @@ ("U" :> "u") @@ ("V" :> "v") @@ ("W" :>
  "w") @@ ("X" :> "x") @@ ("Y" :> "y") @@ ("Z" :> "z")

UpperCase == DOMAIN LowerOf

\* (the concatenation with the empty string only makes the result a sequence)
ToLowerCase(s) ==
  [i \in 1..Len(s) |-> IF s[i] \in UpperCase THEN LowerOf[s[i]] ELSE s[i]] \o <<>>

\* String.prototype.split(/\s+/): the pieces between maximal whitespace runs.
RECURSIVE SplitWhitespace(_)
SplitWhitespace(s) ==
  LET n == Len(s)
      ws == {i \in 1..n : s[i] \in Whitespace}
  IN IF ws = {} THEN <<s>>
     ELSE LET p == MinOf(ws)
              rest == {i \in p..n : s[i] \notin Whitespace}
              q == IF rest = {} THEN n + 1 ELSE MinOf(rest)
          IN <<SubSeq(s, 1, p - 1)>> \o SplitWhitespace(SubSeq(s, q, n))

\* ------------------------------------------------------------------ chunker
\* text.match(/[^.!?]+[.!?]+/g): the successive leftmost matches of a maximal
\* run of non-terminators followed by a maximal run of terminators.  A tail
\* with no terminator after it matches nothing.
RECURSIVE MatchSentences(_, _)
MatchSentences(text, i) ==
  LET n == Len(text)
      starts == {j \in i..n : text[j] \notin Terminators}
  IN IF starts = {} THEN <<>>
     ELSE LET s == MinOf(starts)
              terms == {j \in s..n : text[j] \in Terminators}
          IN IF terms = {} THEN <<>>
             ELSE LET t == MinOf(terms)
                      after == {j \in t..n : text[j] \notin Terminators}
                      e == IF after = {} THEN n ELSE MinOf(after) - 1
                  IN <<SubSeq(text, s, e)>> \o MatchSentences(text, e + 1)

\* The matches alone, with no fallback to the whole text.
SentencesNoFallback(text) == MatchSentences(text, 1)

\* text.match(...) || [text]
Sentences(text) ==
  LET m == MatchSentences(text, 1)
  IN IF m = <<>> THEN <<text>> ELSE m

\* A chunker that starts every chunk empty.
OverlapSeedNone(currentChunk, overlap) == <<>>

\* The overlap seed: words.slice(-Math.floor(overlap / 5)).join(' ') + ' '
OverlapSeed(currentChunk, overlap) ==
  JoinSpace(SliceFrom(SplitSpace(currentChunk), 0 - (overlap \div CharsPerWord)))
    \o <<" ">>

\* The for loop of chunkText over sentences[i..], carrying chunks,
\* currentChunk and currentSize.
RECURSIVE ChunkLoop(_, _, _, _, _, _, _)
ChunkLoop(sentences, i, chunks, currentChunk, currentSize, chunkSize, overlap) ==
  IF i > Len(sentences)
  THEN IF Trim(currentChunk) # <<>>
       THEN Append(chunks, Trim(currentChunk))
       ELSE chunks
  ELSE LET sentence == sentences[i]
           close == currentSize + Len(sentence) > chunkSize /\ currentChunk # <<>>
           seeded == IF close THEN OverlapSeed(currentChunk, overlap) ELSE currentChunk
           size0 == IF close THEN Len(seeded) ELSE currentSize
           chunks0 == IF close THEN Append(chunks, Trim(currentChunk)) ELSE chunks
       IN ChunkLoop(sentences, i + 1, chunks0, seeded \o sentence,
                    size0 + Len(sentence), chunkSize, overlap)

\* A chunker that cuts the text every chunkSize characters, through sentences.
ChunkTextHardCut(text, chunkSize, overlap) ==
  IF chunkSize <= 0 \/ ~(\E i \in 1..Len(text) : text[i] \notin Whitespace)
  THEN <<>>
  ELSE [k \in 1..((Len(text) + chunkSize - 1) \div chunkSize) |->
          SubSeq(text, (k - 1) * chunkSize + 1,
                 IF k * chunkSize > Len(text) THEN Len(text) ELSE k * chunkSize)]

\* chunkText(text, chunkSize = 500, overlap = 50)
ChunkText(text, chunkSize, overlap) ==
  ChunkLoop(Sentences(text), 1, <<>>, <<>>, 0, chunkSize, overlap)

\* ---------------------------------------------------------------- retriever
\* The tokens of the query with none discarded.
TokenizeKeepAll(query) == SplitWhitespace(ToLowerCase(query))

\* query.toLowerCase().split(/\s+/).filter(t => t.length > 2)
Tokenize(query) ==
  SelectSeq(SplitWhitespace(ToLowerCase(query)), LAMBDA t : Len(t) > MinTermLength)

\* A term is used as the source of a regular expression.  The queries of the
\* model are written in letters, blanks and this one quantifier.
Quantifier == "+"

\* new RegExp(term, 'g') throws a SyntaxError (nothing to repeat) when a
\* quantifier has no atom before it.
RegExpThrows(term) ==
  \E i \in 1..Len(term) :
    term[i] = Quantifier /\ (i = 1 \/ term[i - 1] = Quantifier)

\* The atoms of the pattern in order, each with its character and whether a
\* quantifier follows it.
PatternAtoms(term) ==
  SelectSeq([i \in 1..Len(term) |->
               [ch |-> term[i],
                many |-> i < Len(term) /\ term[i + 1] = Quantifier]],
            LAMBDA a : a.ch # Quantifier)

\* The number of consecutive characters ch of text from position pos on.
RECURSIVE RunLength(_, _, _)
RunLength(text, ch, pos) ==
  IF pos > Len(text) \/ text[pos] # ch THEN 0
  ELSE 1 + RunLength(text, ch, pos + 1)

\* The position after the match of atoms k.. that starts at pos, 0 if there is
\* none: a quantified atom takes as many characters as leave a match for the
\* rest of the pattern.
RECURSIVE MatchEnd(_, _, _, _)
MatchEnd(text, atoms, k, pos) ==
  IF k > Len(atoms) THEN pos
  ELSE IF ~atoms[k].many
  THEN IF pos <= Len(text) /\ text[pos] = atoms[k].ch
       THEN MatchEnd(text, atoms, k + 1, pos + 1)
       ELSE 0
  ELSE LET fits == {n \in 1..RunLength(text, atoms[k].ch, pos) :
                      MatchEnd(text, atoms, k + 1, pos + n) # 0}
       IN IF fits = {} THEN 0
          ELSE MatchEnd(text, atoms, k + 1,
                        pos + (CHOOSE n \in fits : \A m \in fits : m <= n))

\* Number of matches a global RegExp finds: the scan restarts after the end of
\* each match (one character on after an empty match), so matches do not
\* overlap.
RECURSIVE GreedyCount(_, _, _, _)
GreedyCount(text, atoms, hits, from) ==
  LET h == {j \in hits : j >= from}
  IN IF h = {} THEN 0
     ELSE LET start == MinOf(h)
              end == MatchEnd(text, atoms, 1, start)
          IN 1 + GreedyCount(text, atoms, hits,
                             IF end = start THEN start + 1 ELSE end)

\* A count of every position at which the pattern matches, overlapping or not.
CountMatchesOverlapping(chunkLower, term) ==
  LET atoms == PatternAtoms(term)
  IN Cardinality({j \in 1..Len(chunkLower) : MatchEnd(chunkLower, atoms, 1, j) # 0})

\* (chunkLower.match(new RegExp(term, 'g')) || []).length
CountMatches(chunkLower, term) ==
  LET atoms == PatternAtoms(term)
      hits == {j \in 1..(Len(chunkLower) + 1) :
                 MatchEnd(chunkLower, atoms, 1, j) # 0}
  IN GreedyCount(chunkLower, atoms, hits, 1)

\* queryTerms.forEach(term => score += occurrences)
RECURSIVE ChunkScore(_, _)
ChunkScore(chunkLower, queryTerms) ==
  IF queryTerms = <<>> THEN 0
  ELSE CountMatches(chunkLower, Head(queryTerms))
         + ChunkScore(chunkLower, Tail(queryTerms))

\* The scoring loop with a chunkIndex that counts from one.
DocScoredChunksOneBased(doc, queryTerms) ==
  LET all == [i \in 1..Len(doc.chunks) |->
                [docId |-> doc.id, docName |-> doc.name, chunk |-> doc.chunks[i],
                 chunkIndex |-> i,
                 score |-> ChunkScore(ToLowerCase(doc.chunks[i]), queryTerms)]]
  IN SelectSeq(all, LAMBDA sc : sc.score > 0)

\* doc.chunks.forEach((chunk, index) => ... if (score > 0) scoredChunks.push(...))
DocScoredChunks(doc, queryTerms) ==
  LET all == [i \in 1..Len(doc.chunks) |->
                [docId |-> doc.id, docName |-> doc.name, chunk |-> doc.chunks[i],
                 chunkIndex |-> i - 1,
                 score |-> ChunkScore(ToLowerCase(doc.chunks[i]), queryTerms)]]
  IN SelectSeq(all, LAMBDA sc : sc.score > 0)

\* activeDocuments.forEach(doc => ...): the emitted chunks, in document order.
RECURSIVE ScoredChunks(_, _)
ScoredChunks(docs, queryTerms) ==
  IF docs = <<>> THEN <<>>
  ELSE DocScoredChunks(Head(docs), queryTerms) \o ScoredChunks(Tail(docs), queryTerms)

\* One insertion of a sort that puts x before the elements of its own score.
RECURSIVE InsertByScoreUnstable(_, _)
InsertByScoreUnstable(sorted, x) ==
  IF sorted = <<>> THEN <<x>>
  ELSE IF Head(sorted).score > x.score
       THEN <<Head(sorted)>> \o InsertByScoreUnstable(Tail(sorted), x)
       ELSE <<x>> \o sorted

\* One insertion of a stable sort under the comparator (a, b) => b.score - a.score:
\* x goes after every element whose score is not lower than its own.
RECURSIVE InsertByScore(_, _)
InsertByScore(sorted, x) ==
  IF sorted = <<>> THEN <<x>>
  ELSE IF Head(sorted).score >= x.score
       THEN <<Head(sorted)>> \o InsertByScore(Tail(sorted), x)
       ELSE <<x>> \o sorted

\* The emitted chunks left in emission order.
Unsorted(scoredChunks) == scoredChunks

\* scoredChunks.sort((a, b) => b.score - a.score); Array.prototype.sort is stable.
RECURSIVE SortByScore(_)
SortByScore(scoredChunks) ==
  IF scoredChunks = <<>> THEN <<>>
  ELSE InsertByScore(SortByScore(SubSeq(scoredChunks, 1, Len(scoredChunks) - 1)),
                     scoredChunks[Len(scoredChunks)])

\* getActiveDocuments that forgets the active flag.
AllDocuments(docs) == docs

\* this.documents.filter(doc => doc.active)
ActiveDocuments(docs) == SelectSeq(docs, LAMBDA d : d.active)

\* A slice that takes one entry too many.
TopSliceOneMore(sorted, topK) == SliceTo(sorted, topK + 1)

\* .slice(0, topK)
TopSlice(sorted, topK) == SliceTo(sorted, topK)

\* retrieveContext up to its last statement: the early return on no active
\* document, the scoring loops and the sort.
RankedChunks(docs, query) ==
  LET activeDocuments == ActiveDocuments(docs)
  IN IF Len(activeDocuments) = 0 THEN <<>>
     ELSE SortByScore(ScoredChunks(activeDocuments, Tokenize(query)))

\* retrieveContext when it returns.
RetrieveContext(docs, query, topK) == TopSlice(RankedChunks(docs, query), topK)

\* retrieveContext throws out of the scoring loop: building the RegExp of a
\* term throws at the first chunk of the first active Document that has one.
RetrieveThrows(docs, query) ==
  LET activeDocuments == ActiveDocuments(docs)
      queryTerms == Tokenize(query)
  IN /\ \E i \in 1..Len(activeDocuments) : Len(activeDocuments[i].chunks) > 0
     /\ \E t \in 1..Len(queryTerms) : RegExpThrows(queryTerms[t])

\* What a retrieveContext call gives its caller: the error it throws (with no
\* result), or the sequence it returns.
RetrieveOutcome(docs, query, topK) ==
  IF RetrieveThrows(docs, query)
  THEN [error |-> "SyntaxError", result |-> <<>>]
  ELSE [error |-> "none", result |-> RetrieveContext(docs, query, topK)]

\* ------------------------------------------------------- context formatter
\* header: '=== RELEVANT DOCUMENT CONTEXT ===\n'
Header ==
  <<"=", "=", "=", " ", "R", "E", "L", "E", "V", "A", "N", "T", " ", "D",
  "O", "C", "U", "M", "E", "N", "T", " ", "C", "O", "N", "T", "E", "X", "T",
  " ", "=", "=", "=", "\n">>

\* footer: '\n=== END CONTEXT ===\n\n'
Footer ==
  <<"\n", "=", "=", "=", " ", "E", "N", "D", " ", "C", "O", "N", "T", "E",
  "X", "T", " ", "=", "=", "=", "\n", "\n">>

\* the separator of join: '\n\n---\n\n'
Separator ==
  <<"\n", "\n", "-", "-", "-", "\n", "\n">>

\* the fixed pieces of the template literal of a block
SourceOpen ==
  <<"[", "S", "o", "u", "r", "c", "e", ":", " ">>

\* ", Chunk "
SourceChunk ==
  <<",", " ", "C", "h", "u", "n", "k", " ">>

\* "]\n"
SourceClose ==
  <<"]", "\n">>

\* The decimal digits, digit d at position d + 1.
DigitChars == <<"0", "1", "2", "3", "4", "5", "6", "7", "8", "9">>

\* String(n) for an integer n >= 0, as the template literal renders a number.
RECURSIVE NumberText(_)
NumberText(n) ==
  IF n < Len(DigitChars) THEN <<DigitChars[n + 1]>>
  ELSE NumberText(n \div Len(DigitChars)) \o <<DigitChars[(n % Len(DigitChars)) + 1]>>

\* The characters of a file name (names are kept as atoms elsewhere).
NameText(name) ==
  CASE name = "a.txt" -> <<"a", ".", "t", "x", "t">>
    [] name = "b.md" -> <<"b", ".", "m", "d">>
    [] name = "banana.txt" -> <<"b", "a", "n", "a", "n", "a", ".", "t", "x", "t">>
    [] name = "scenario.txt" ->
         <<"s", "c", "e", "n", "a", "r", "i", "o", ".", "t", "x", "t">>
    [] name = "log.txt" -> <<"l", "o", "g", ".", "t", "x", "t">>
    [] name = "tarts.txt" -> <<"t", "a", "r", "t", "s", ".", "t", "x", "t">>

\* A block that carries the chunkIndex as it is.
ContextPartZeroBased(item) ==
  SourceOpen \o NameText(item.docName) \o SourceChunk
    \o NumberText(item.chunkIndex) \o SourceClose \o item.chunk

\* `[Source: ${item.docName}, Chunk ${item.chunkIndex + 1}]\n${item.chunk}`
ContextPart(item) ==
  SourceOpen \o NameText(item.docName) \o SourceChunk
    \o NumberText(item.chunkIndex + 1) \o SourceClose \o item.chunk

\* Array.prototype.join(separator)
RECURSIVE JoinWith(_, _)
JoinWith(parts, separator) ==
  IF Len(parts) = 0 THEN <<>>
  ELSE IF Len(parts) = 1 THEN parts[1]
  ELSE parts[1] \o separator \o JoinWith(Tail(parts), separator)

\* formatContext(chunks)
FormatContext(chunks) ==
  IF Len(chunks) = 0 THEN <<>>
  ELSE LET contextParts == [i \in 1..Len(chunks) |-> ContextPart(chunks[i])]
       IN Header \o JoinWith(contextParts, Separator) \o Footer

\* the label before the user's text: 'User Query: '
UserQueryLabel ==
  <<"U", "s", "e", "r", " ", "Q", "u", "e", "r", "y", ":", " ">>

\* enhanceMessageWithContext(ragManager, userMessage): the error retrieveContext
\* throws, or the text returned.
EnhanceMessageWithContext(docs, userMessage) ==
  LET relevantChunks == RetrieveOutcome(docs, userMessage, DefaultTopK)
  IN IF relevantChunks.error # "none"
     THEN [error |-> relevantChunks.error, text |-> <<>>]
     ELSE IF Len(relevantChunks.result) = 0
     THEN [error |-> "none", text |-> userMessage]
     ELSE [error |-> "none",
           text |-> FormatContext(relevantChunks.result) \o UserQueryLabel
                      \o userMessage]

\* messageContent of sendMessage for the text typed: the text, or the context
\* and the label before it when there are active Documents and retrieveContext
\* returns chunks; the error retrieveContext throws leaves sendMessage.
MessageContent(docs, text) ==
  IF Len(ActiveDocuments(docs)) > 0
  THEN LET relevantChunks == RetrieveOutcome(docs, text, DefaultTopK)
       IN IF relevantChunks.error # "none"
          THEN [error |-> relevantChunks.error, text |-> <<>>]
          ELSE IF Len(relevantChunks.result) > 0
          THEN [error |-> "none",
                text |-> FormatContext(relevantChunks.result) \o UserQueryLabel
                           \o text]
          ELSE [error |-> "none", text |-> text]
  ELSE [error |-> "none", text |-> text]

\* ------------------------------------------------- sample files and queries
\* "Apple tart."
TextHead ==
  <<"A", "p", "p", "l", "e", " ", "t", "a", "r", "t", ".">>

\* " Lorem ipsum dolor sit amet consectetur adipiscing elit sed do eiusmod tempor incididunt ut labore magna."
TextFiller ==
  <<" ", "L", "o", "r", "e", "m", " ", "i", "p", "s", "u", "m", " ", "d",
  "o", "l", "o", "r", " ", "s", "i", "t", " ", "a", "m", "e", "t", " ", "c",
  "o", "n", "s", "e", "c", "t", "e", "t", "u", "r", " ", "a", "d", "i", "p",
  "i", "s", "c", "i", "n", "g", " ", "e", "l", "i", "t", " ", "s", "e", "d",
  " ", "d", "o", " ", "e", "i", "u", "s", "m", "o", "d", " ", "t", "e", "m",
  "p", "o", "r", " ", "i", "n", "c", "i", "d", "i", "d", "u", "n", "t", " ",
  "u", "t", " ", "l", "a", "b", "o", "r", "e", " ", "m", "a", "g", "n", "a",
  ".">>

\* " Kiwi. Apple kiwi."
TextTail ==
  <<" ", "K", "i", "w", "i", ".", " ", "A", "p", "p", "l", "e", " ", "k",
  "i", "w", "i", ".">>

\* "Apple APPLE kiwi!"
TextB ==
  <<"A", "p", "p", "l", "e", " ", "A", "P", "P", "L", "E", " ", "k", "i",
  "w", "i", "!">>

\* "%PDF apple"
TextPdf ==
  <<"%", "P", "D", "F", " ", "a", "p", "p", "l", "e">>

\* "PK apple"
TextDocx ==
  <<"P", "K", " ", "a", "p", "p", "l", "e">>

\* "Apple"
QueryApple ==
  <<"A", "p", "p", "l", "e">>

\* "kiwi an  apple"
QueryTwoTerms ==
  <<"k", "i", "w", "i", " ", "a", "n", " ", " ", "a", "p", "p", "l", "e">>

\* "is pear"
QueryNoMatch ==
  <<"i", "s", " ", "p", "e", "a", "r">>

\* The long text: a head sentence, FillerCount filler sentences, a tail.
TextA == TextHead \o Rep(TextFiller, FillerCount) \o TextTail

PdfType == "application/pdf"
DocxType == "application/vnd.openxmlformats-officedocument.wordprocessingml.document"

\* File objects: a long text file (two chunks), a short one, a PDF and a DOCX.
FileA == [name |-> "a.txt", type |-> "text/plain", size |-> Len(TextA), content |-> TextA]
FileB == [name |-> "b.md", type |-> "text/markdown", size |-> Len(TextB), content |-> TextB]
FilePdf == [name |-> "c.pdf", type |-> PdfType, size |-> Len(TextPdf), content |-> TextPdf]
FileDocx ==
  [name |-> "d.docx", type |-> DocxType, size |-> Len(TextDocx), content |-> TextDocx]

\* The File objects the host hands to addDocument while the store runs.
\* "Banana nana."
TextBanana ==
  <<"B", "a", "n", "a", "n", "a", " ", "n", "a", "n", "a", ".">>

\* "  "
TextBlank ==
  <<" ", " ">>

\* "Sentence one. Sentence two. Sentence three."
TextScenarioA ==
  <<"S", "e", "n", "t", "e", "n", "c", "e", " ", "o", "n", "e", ".", " ",
  "S", "e", "n", "t", "e", "n", "c", "e", " ", "t", "w", "o", ".", " ", "S",
  "e", "n", "t", "e", "n", "c", "e", " ", "t", "h", "r", "e", "e", ".">>

\* The empty string.
QueryEmpty == <<>>

\* " "
QueryBlank ==
  <<" ">>

\* "c++"
QueryPlus ==
  <<"c", "+", "+">>

\* "ap+le"
QueryPattern ==
  <<"a", "p", "+", "l", "e">>

\* "ana"
QueryOverlap ==
  <<"a", "n", "a">>

\* "two"
QueryTwo ==
  <<"t", "w", "o">>

\* "is an"
QueryShort ==
  <<"i", "s", " ", "a", "n">>

\* "pear"
QueryPear ==
  <<"p", "e", "a", "r">>

\* "Kiwi apple"
QuerySum ==
  <<"K", "i", "w", "i", " ", "a", "p", "p", "l", "e">>

FileBanana == [name |-> "banana.txt", type |-> "text/plain", size |-> Len(TextBanana), content |-> TextBanana]
FileBlank == [name |-> "blank.txt", type |-> "text/plain", size |-> Len(TextBlank), content |-> TextBlank]
FileScenarioA == [name |-> "scenario.txt", type |-> "text/plain", size |-> Len(TextScenarioA), content |-> TextScenarioA]

\* Scenario A: the text, the chunk size it is cut with and the query.
ScenarioA == [file |-> FileScenarioA, chunkSize |-> 15, query |-> QueryTwo]

ScoreQueries ==
  {QueryEmpty, QueryBlank, QueryPlus, QueryPattern, QueryOverlap, QueryTwo,
   QueryShort, QueryPear, QuerySum}

\* The empty string.
TextEmpty == <<>>

\* "No stop here"
TextNoTerminator ==
  <<"N", "o", " ", "s", "t", "o", "p", " ", "h", "e", "r", "e">>

\* "One two. Three four"
TextLostTail ==
  <<"O", "n", "e", " ", "t", "w", "o", ".", " ", "T", "h", "r", "e", "e",
  " ", "f", "o", "u", "r">>

\* "?Why not. Ok!"
TextLeadingStop ==
  <<"?", "W", "h", "y", " ", "n", "o", "t", ".", " ", "O", "k", "!">>

\* "Hi. This one sentence is rather long. Bye now."
TextOversized ==
  <<"H", "i", ".", " ", "T", "h", "i", "s", " ", "o", "n", "e", " ", "s",
  "e", "n", "t", "e", "n", "c", "e", " ", "i", "s", " ", "r", "a", "t", "h",
  "e", "r", " ", "l", "o", "n", "g", ".", " ", "B", "y", "e", " ", "n", "o",
  "w", ".">>

\* "..."
TextDots ==
  <<".", ".", ".">>

\* The texts, chunk sizes and overlaps chunkText is called with.
ChunkTexts ==
  {TextEmpty, TextBlank, TextScenarioA, TextNoTerminator, TextLostTail,
   TextLeadingStop, TextOversized, TextDots, TextB}
ChunkSizes == {0, 10, 15, 30, 500}
Overlaps == {0, 4, 5, 10, 50}

\* A saved prompt: "=== RELEVANT DOCUMENT CONTEXT === Apple note. === END CONTEXT === Apple end."
TextTranscript ==
  <<"=", "=", "=", " ", "R", "E", "L", "E", "V", "A", "N", "T", " ", "D",
  "O", "C", "U", "M", "E", "N", "T", " ", "C", "O", "N", "T", "E", "X", "T",
  " ", "=", "=", "=", " ", "A", "p", "p", "l", "e", " ", "n", "o", "t", "e",
  ".", " ", "=", "=", "=", " ", "E", "N", "D", " ", "C", "O", "N", "T", "E",
  "X", "T", " ", "=", "=", "=", " ", "A", "p", "p", "l", "e", " ", "e", "n",
  "d", ".">>

\* "kiwi"
QueryKiwi ==
  <<"k", "i", "w", "i">>

\* The number of "Apple tart." sentences before the tail of the many-chunk text.
TartCount == 9

\* Many short sentences, the last two about kiwi.
TextTarts == Rep(TextHead, TartCount) \o TextTail

FileTranscript ==
  [name |-> "log.txt", type |-> "text/plain", size |-> Len(TextTranscript),
   content |-> TextTranscript]
FileTarts ==
  [name |-> "tarts.txt", type |-> "text/plain", size |-> Len(TextTarts),
   content |-> TextTarts]

\* The many-chunk text and the chunk size that makes every sentence a chunk.
Tarts == [file |-> FileTarts, chunkSize |-> 10]

FormatQueries == {QueryApple, QueryTwo, QueryOverlap, QueryKiwi, QueryPear}

Files == {FileB, FilePdf, FileDocx}

Queries == {QueryApple, QueryTwoTerms, QueryNoMatch}
TopKs == (-1)..MaxTopK
\* The listener functions the host registers.
ListenerIds == {"updateUI", "refreshStats"}
\* Values of Math.random().toString(36).substr(2, 9)
RandomSuffixes == {"k3x9q0z1a"}
\* doc_${Date.now()}_${suffix}: two ids are equal iff both parts are.
DocIds == (1..MaxTime) \X RandomSuffixes

\* ------------------------------------------------------------------- state
VARIABLES
  documents,   \* this.documents: the in-memory collection
  persisted,   \* localStorage item llmwebui_rag.documents (Absent when not set)
  listeners,   \* this.listeners: a Set, kept in insertion order
  pending,     \* files of the addDocument calls suspended on file.text()
  lastOp,      \* the call that returned last: its arguments, effects and result
  writeFailures \* number of localStorage writes that have failed so far

vars == <<documents, persisted, listeners, pending, lastOp, writeFailures>>

None == "none"

\* ------------------------------------------------------------ storage layer
\* A JSON text is kept as the tree of its values: a string, a number, true,
\* false, an array of values, or an object as the list of its members in the
\* order they were written.
JsonString(s) == [kind |-> "string", v |-> s]
JsonNumber(n) == [kind |-> "number", v |-> n]
JsonBoolean(b) == [kind |-> IF b THEN "true" ELSE "false", v |-> <<>>]
JsonArray(items) == [kind |-> "array", v |-> items]
JsonObject(members) == [kind |-> "object", v |-> members]

\* JSON.stringify of a Document: its properties in the order of the object
\* literal of addDocument, each written according to its type.
JsonDocument(doc) ==
  JsonObject(<< <<"id", JsonString(doc.id)>>,
                <<"name", JsonString(doc.name)>>,
                <<"type", JsonString(doc.type)>>,
                <<"size", JsonNumber(doc.size)>>,
                <<"content", JsonString(doc.content)>>,
                <<"chunks", JsonArray([i \in 1..Len(doc.chunks) |->
                                        JsonString(doc.chunks[i])])>>,
                <<"addedAt", JsonNumber(doc.addedAt)>>,
                <<"active", JsonBoolean(doc.active)>> >>)

\* JSON.stringify(this.documents)
JsonStringify(docs) == JsonArray([i \in 1..Len(docs) |-> JsonDocument(docs[i])])

\* JSON.parse: the value a JSON text stands for; of two members of an object
\* with the same key the later one counts.
RECURSIVE JsonParse(_)
JsonParse(json) ==
  CASE json.kind \in {"string", "number"} -> json.v
    [] json.kind = "true" -> TRUE
    [] json.kind = "false" -> FALSE
    [] json.kind = "array" -> [i \in 1..Len(json.v) |-> JsonParse(json.v[i])]
    [] json.kind = "object" ->
         LET keys == {json.v[i][1] : i \in 1..Len(json.v)}
             last(k) == CHOOSE i \in 1..Len(json.v) :
                          /\ json.v[i][1] = k
                          /\ \A j \in (i + 1)..Len(json.v) : json.v[j][1] # k
         IN [k \in keys |-> JsonParse(json.v[last(k)][2])]

\* A localStorage item: not set, or set to the JSON text of a value.
Absent == [present |-> FALSE, value |-> <<>>]
Stored(value) == [present |-> TRUE, value |-> JsonStringify(value)]

\* Storage.get: localStorage.getItem, then JSON.parse; null when nothing is stored.
StorageGet(stored) ==
  IF stored.present THEN [null |-> FALSE, value |-> JsonParse(stored.value)]
  ELSE [null |-> TRUE, value |-> <<>>]

\* Storage.set whose failing write takes the stored item away.
StorageSetWipes(stored, value, writeOk) == IF writeOk THEN Stored(value) ELSE Absent

\* Storage.set: localStorage.setItem(JSON.stringify(value)) inside try/catch;
\* a failing write (quota exceeded) is logged and the stored item stays as it was.
StorageSet(stored, value, writeOk) == IF writeOk THEN Stored(value) ELSE stored

\* loadDocuments: this.storage.get('rag.documents') || []
LoadDocuments(stored) ==
  IF StorageGet(stored).null THEN <<>> ELSE StorageGet(stored).value

\* ---------------------------------------------------------------- listeners
\* notifyListeners: this.listeners.forEach(listener => { try { listener(documents) }
\* catch { log } }).  throwers are the listeners that throw when called.
\* calls: the invocations made, in order; raised: an exception left the loop.
\* The loop without its try/catch: the first exception ends it and leaves it.
RECURSIVE NotifyFromUncaught(_, _, _, _)
NotifyFromUncaught(ls, i, docs, throwers) ==
  IF i > Len(ls) THEN [calls |-> <<>>, caught |-> {}, raised |-> FALSE]
  ELSE IF ls[i] \in throwers
  THEN [calls |-> <<[listener |-> ls[i], arg |-> docs]>>, caught |-> {},
        raised |-> TRUE]
  ELSE LET rest == NotifyFromUncaught(ls, i + 1, docs, throwers)
       IN [calls |-> <<[listener |-> ls[i], arg |-> docs]>> \o rest.calls,
           caught |-> rest.caught,
           raised |-> rest.raised]

RECURSIVE NotifyFrom(_, _, _, _)
NotifyFrom(ls, i, docs, throwers) ==
  IF i > Len(ls) THEN [calls |-> <<>>, caught |-> {}, raised |-> FALSE]
  ELSE LET rest == NotifyFrom(ls, i + 1, docs, throwers)
           \* the catch clause: an exception of ls[i] is logged and the loop goes on
           caughtHere == IF ls[i] \in throwers THEN {ls[i]} ELSE {}
       IN [calls |-> <<[listener |-> ls[i], arg |-> docs]>> \o rest.calls,
           caught |-> caughtHere \cup rest.caught,
           raised |-> rest.raised]

NotifyListeners(ls, docs, throwers) == NotifyFrom(ls, 1, docs, throwers)

\* saveDocuments that stores and forgets to notify.
SaveDocumentsSilent(docs, stored, ls, writeOk, throwers) ==
  [persisted |-> StorageSet(stored, docs, writeOk),
   calls |-> <<>>, caught |-> {}, raised |-> FALSE]

\* The invocations, each with the localStorage item as it is while the
\* listener runs.
Seeing(calls, item) ==
  [c \in 1..Len(calls) |->
     [listener |-> calls[c].listener, arg |-> calls[c].arg, stored |-> item]]

\* saveDocuments that notifies the listeners first and stores afterwards.
SaveDocumentsNotifyFirst(docs, stored, ls, writeOk, throwers) ==
  LET note == NotifyListeners(ls, docs, throwers)
  IN [persisted |-> StorageSet(stored, docs, writeOk),
      calls |-> Seeing(note.calls, stored),
      caught |-> note.caught,
      raised |-> note.raised]

\* saveDocuments: storage.set, then notifyListeners.
SaveDocuments(docs, stored, ls, writeOk, throwers) ==
  LET written == StorageSet(stored, docs, writeOk)
      note == NotifyListeners(ls, docs, throwers)
  IN [persisted |-> written,
      calls |-> Seeing(note.calls, written),
      caught |-> note.caught,
      raised |-> note.raised]

\* -------------------------------------------------------------------- store
\* parseFile: await file.text(), then the checks on file.type.
ParseFile(file, readOk) ==
  IF ~readOk THEN [error |-> "ReadFailure", text |-> <<>>]
  ELSE IF file.type = PdfType THEN [error |-> "PdfNotImplemented", text |-> <<>>]
  ELSE IF file.type = DocxType THEN [error |-> "DocxNotImplemented", text |-> <<>>]
  ELSE [error |-> None, text |-> file.content]

UnsupportedErrors == {"PdfNotImplemented", "DocxNotImplemented"}

\* The document object literal of addDocument.
NewDocument(file, content, chunks, id, now) ==
  [id |-> id, name |-> file.name, type |-> file.type, size |-> file.size,
   content |-> content, chunks |-> chunks, addedAt |-> now, active |-> TRUE]

\* this.documents.find(d => d.id === docId): the index of the first match, 0 if none.
FindIndex(docs, docId) ==
  IF \E i \in 1..Len(docs) : docs[i].id = docId
  THEN CHOOSE i \in 1..Len(docs) :
         docs[i].id = docId /\ \A j \in 1..(i - 1) : docs[j].id # docId
  ELSE 0

\* A toggle that also throws away the chunks of the document found.
FlipActiveDropChunks(docs, i) ==
  [docs EXCEPT ![i].active = ~docs[i].active, ![i].chunks = <<>>]

\* doc.active = !doc.active on the document found.
FlipActive(docs, i) == [docs EXCEPT ![i].active = ~docs[i].active]

\* this.documents.filter(d => d.id !== docId)
WithoutId(docs, docId) == SelectSeq(docs, LAMBDA d : d.id # docId)

\* reduce((sum, d) => sum + amount(d), 0), on the amounts of the Documents
RECURSIVE ReduceSum(_, _, _)
ReduceSum(amounts, i, sum) ==
  IF i > Len(amounts) THEN sum
  ELSE ReduceSum(amounts, i + 1, sum + amounts[i])

\* d.size and d.chunks.length of every Document, in order
Sizes(docs) == [i \in 1..Len(docs) |-> docs[i].size]
ChunkCounts(docs) == [i \in 1..Len(docs) |-> Len(docs[i].chunks)]

\* getStats that adds up the chunks of the active Documents only.
GetStatsActiveChunks(docs) ==
  [total |-> Len(docs),
   active |-> Len(ActiveDocuments(docs)),
   totalSize |-> ReduceSum(Sizes(docs), 1, 0),
   totalChunks |-> ReduceSum(ChunkCounts(ActiveDocuments(docs)), 1, 0)]

\* getStats
GetStats(docs) ==
  [total |-> Len(docs),
   active |-> Len(ActiveDocuments(docs)),
   totalSize |-> ReduceSum(Sizes(docs), 1, 0),
   totalChunks |-> ReduceSum(ChunkCounts(docs), 1, 0)]

\* getDocument: this.documents.find(d => d.id === docId) || null
GetDocument(docs, docId) ==
  IF FindIndex(docs, docId) = 0 THEN [null |-> TRUE, value |-> <<>>]
  ELSE [null |-> FALSE, value |-> docs[FindIndex(docs, docId)]]

\* The record of a call: op and arg name it; error is what it threw (None when it
\* returned normally) and result what it returned; saved tells that it ran
\* saveDocuments, wrote that the write of that save succeeded; calls are the
\* listener invocations it made and threw the listeners that throw when invoked;
\* before is the collection a toggle found (empty for the other calls).
Record(op, arg, error, result, saved, wrote, calls, threw) ==
  [op |-> op, arg |-> arg, error |-> error, result |-> result,
   saved |-> saved, wrote |-> wrote, calls |-> calls, threw |-> threw,
   before |-> IF op = "toggleDocument" THEN documents ELSE <<>>]

Init ==
  /\ persisted = Absent
  /\ documents = LoadDocuments(Absent)
  /\ listeners = <<>>
  /\ pending = {}
  /\ writeFailures = 0
  /\ lastOp = [op |-> "constructor", arg |-> None, error |-> None, result |-> None,
               saved |-> FALSE, wrote |-> FALSE, calls |-> <<>>, threw |-> {},
               before |-> <<>>]

\* The outcomes a localStorage write may have: it succeeds, or (quota exceeded)
\* it throws inside Storage.set.
WriteOutcomes == IF writeFailures < MaxWriteFailures THEN BOOLEAN ELSE {TRUE}

Failed(writeOk) == writeFailures + (IF writeOk THEN 0 ELSE 1)

\* The registered listeners, as a set.
Registered == {listeners[i] : i \in 1..Len(listeners)}

\* What a call reports to its caller when saveDocuments has run.
SaveError(sv) == IF sv.raised THEN "ListenerError" ELSE None

\* addDocument up to its await: the call is suspended on file.text().
AddDocumentStart(file) ==
  /\ file \notin pending
  /\ Len(documents) + Cardinality(pending) < MaxDocs
  /\ pending' = pending \cup {file}
  /\ lastOp' = Record("addDocument:await", file.name, None, None, FALSE, FALSE, <<>>, {})
  /\ UNCHANGED <<documents, persisted, listeners, writeFailures>>

\* addDocument that puts the Document into the collection before parseFile
\* has settled, and leaves it there when parseFile rejects.
AddDocumentResumeEager(file) ==
  /\ file \in pending
  /\ pending' = pending \ {file}
  /\ UNCHANGED <<listeners, persisted, writeFailures>>
  /\ \E readOk \in BOOLEAN, id \in DocIds :
       LET parsed == ParseFile(file, readOk)
           document == NewDocument(file, <<>>, <<>>, id, id[1])
       IN /\ documents' = Append(documents, document)
          /\ lastOp' = Record("addDocument", file.name, parsed.error, None,
                              FALSE, FALSE, <<>>, {})

\* addDocument whose push is lost when it completes while another call is
\* still suspended on its file read.
AddDocumentResumeLost(file) ==
  /\ file \in pending
  /\ pending' = pending \ {file}
  /\ UNCHANGED listeners
  /\ \E readOk \in BOOLEAN :
       LET parsed == ParseFile(file, readOk)
       IN IF parsed.error # None
          THEN /\ lastOp' = Record("addDocument", file.name, parsed.error, None,
                                   FALSE, FALSE, <<>>, {})
               /\ UNCHANGED <<documents, persisted, writeFailures>>
          ELSE LET chunks == ChunkText(parsed.text, AddChunkSize, DefaultOverlap)
               IN \E id \in DocIds, writeOk \in WriteOutcomes, throwers \in SUBSET Registered :
                 LET document == NewDocument(file, parsed.text, chunks, id, id[1])
                     docs == IF pending \ {file} # {} THEN documents
                             ELSE Append(documents, document)
                     sv == SaveDocuments(docs, persisted, listeners, writeOk, throwers)
                 IN /\ documents' = docs
                    /\ persisted' = sv.persisted
                    /\ writeFailures' = Failed(writeOk)
                    /\ lastOp' = Record("addDocument", file.name, SaveError(sv),
                                        IF sv.raised THEN None ELSE document,
                                        TRUE, writeOk, sv.calls, throwers)

\* addDocument that leaves the write of its save to the calls still suspended
\* on their file reads, when there are any.
AddDocumentResumeDeferred(file) ==
  /\ file \in pending
  /\ pending' = pending \ {file}
  /\ UNCHANGED listeners
  /\ \E readOk \in BOOLEAN :
       LET parsed == ParseFile(file, readOk)
       IN IF parsed.error # None
          THEN /\ lastOp' = Record("addDocument", file.name, parsed.error, None,
                                   FALSE, FALSE, <<>>, {})
               /\ UNCHANGED <<documents, persisted, writeFailures>>
          ELSE LET chunks == ChunkText(parsed.text, AddChunkSize, DefaultOverlap)
               IN \E id \in DocIds, writeOk \in WriteOutcomes, throwers \in SUBSET Registered :
                 LET document == NewDocument(file, parsed.text, chunks, id, id[1])
                     docs == Append(documents, document)
                     sv == SaveDocuments(docs, persisted, listeners, writeOk, throwers)
                     alone == pending \ {file} = {}
                 IN /\ documents' = docs
                    /\ persisted' = IF alone THEN sv.persisted ELSE persisted
                    /\ writeFailures' = IF alone THEN Failed(writeOk) ELSE writeFailures
                    /\ lastOp' = Record("addDocument", file.name, SaveError(sv),
                                        IF sv.raised THEN None ELSE document,
                                        TRUE, alone /\ writeOk, sv.calls, throwers)

\* addDocument from the await on: parseFile throws and the call rejects, or the
\* document is built, pushed and saved.
AddDocumentResume(file) ==
  /\ file \in pending
  /\ pending' = pending \ {file}
  /\ UNCHANGED listeners
  /\ \E readOk \in BOOLEAN :
       LET parsed == ParseFile(file, readOk)
       IN IF parsed.error # None
          THEN /\ lastOp' = Record("addDocument", file.name, parsed.error, None,
                                   FALSE, FALSE, <<>>, {})
               /\ UNCHANGED <<documents, persisted, writeFailures>>
          ELSE LET chunks == ChunkText(parsed.text, AddChunkSize, DefaultOverlap)
               IN \E id \in DocIds, writeOk \in WriteOutcomes, throwers \in SUBSET Registered :
                 LET document == NewDocument(file, parsed.text, chunks, id, id[1])
                     docs == Append(documents, document)
                     sv == SaveDocuments(docs, persisted, listeners, writeOk, throwers)
                 IN /\ documents' = docs
                    /\ persisted' = sv.persisted
                    /\ writeFailures' = Failed(writeOk)
                    /\ lastOp' = Record("addDocument", file.name, SaveError(sv),
                                        IF sv.raised THEN None ELSE document,
                                        TRUE, writeOk, sv.calls, throwers)

\* toggleDocument that saves and notifies even when it finds no Document.
ToggleDocumentAlwaysSaves(docId) ==
  /\ UNCHANGED <<listeners, pending>>
  /\ LET i == FindIndex(documents, docId)
     IN \E writeOk \in WriteOutcomes, throwers \in SUBSET Registered :
          LET docs == IF i = 0 THEN documents ELSE FlipActive(documents, i)
              sv == SaveDocuments(docs, persisted, listeners, writeOk, throwers)
          IN /\ documents' = docs
             /\ persisted' = sv.persisted
             /\ writeFailures' = Failed(writeOk)
             /\ lastOp' = Record("toggleDocument", docId, SaveError(sv), None,
                                 TRUE, writeOk, sv.calls, throwers)

\* toggleDocument(docId)
ToggleDocument(docId) ==
  /\ UNCHANGED <<listeners, pending>>
  /\ LET i == FindIndex(documents, docId)
     IN IF i = 0
        THEN /\ lastOp' = Record("toggleDocument", docId, None, None,
                                 FALSE, FALSE, <<>>, {})
             /\ UNCHANGED <<documents, persisted, writeFailures>>
        ELSE \E writeOk \in WriteOutcomes, throwers \in SUBSET Registered :
               LET docs == FlipActive(documents, i)
                   sv == SaveDocuments(docs, persisted, listeners, writeOk, throwers)
               IN /\ documents' = docs
                  /\ persisted' = sv.persisted
                  /\ writeFailures' = Failed(writeOk)
                  /\ lastOp' = Record("toggleDocument", docId, SaveError(sv), None,
                                      TRUE, writeOk, sv.calls, throwers)

\* removeDocument(docId)
RemoveDocument(docId) ==
  /\ UNCHANGED <<listeners, pending>>
  /\ \E writeOk \in WriteOutcomes, throwers \in SUBSET Registered :
       LET docs == WithoutId(documents, docId)
           sv == SaveDocuments(docs, persisted, listeners, writeOk, throwers)
       IN /\ documents' = docs
          /\ persisted' = sv.persisted
                  /\ writeFailures' = Failed(writeOk)
          /\ lastOp' = Record("removeDocument", docId, SaveError(sv), None,
                              TRUE, writeOk, sv.calls, throwers)

\* clearAll that also abandons the uploads suspended on their file reads.
ClearAllCancelling ==
  /\ UNCHANGED listeners
  /\ pending' = {}
  /\ \E writeOk \in WriteOutcomes, throwers \in SUBSET Registered :
       LET sv == SaveDocuments(<<>>, persisted, listeners, writeOk, throwers)
       IN /\ documents' = <<>>
          /\ persisted' = sv.persisted
          /\ writeFailures' = Failed(writeOk)
          /\ lastOp' = Record("clearAll", None, SaveError(sv), None,
                              TRUE, writeOk, sv.calls, throwers)

\* clearAll()
ClearAll ==
  /\ UNCHANGED <<listeners, pending>>
  /\ \E writeOk \in WriteOutcomes, throwers \in SUBSET Registered :
       LET sv == SaveDocuments(<<>>, persisted, listeners, writeOk, throwers)
       IN /\ documents' = <<>>
          /\ persisted' = sv.persisted
                  /\ writeFailures' = Failed(writeOk)
          /\ lastOp' = Record("clearAll", None, SaveError(sv), None,
                              TRUE, writeOk, sv.calls, throwers)

\* retrieveContext(query, topK)
Retrieve(query) ==
  /\ \E topK \in TopKs :
      LET outcome == RetrieveOutcome(documents, query, topK)
      IN lastOp' = Record("retrieveContext", <<query, topK>>, outcome.error,
                          outcome.result, FALSE, FALSE, <<>>, {})
  /\ UNCHANGED <<documents, persisted, listeners, pending, writeFailures>>

\* addListener on an array: a listener added again is held twice.
AddListenerAppends(l) ==
  /\ listeners' = Append(listeners, l)
  /\ lastOp' = Record("addListener", l, None, None, FALSE, FALSE, <<>>, {})
  /\ UNCHANGED <<documents, persisted, pending, writeFailures>>

\* addListener(listener): Set.prototype.add
AddListener(l) ==
  /\ listeners' = IF \E i \in 1..Len(listeners) : listeners[i] = l
                  THEN listeners ELSE Append(listeners, l)
  /\ lastOp' = Record("addListener", l, None, None, FALSE, FALSE, <<>>, {})
  /\ UNCHANGED <<documents, persisted, pending, writeFailures>>

\* removeListener(listener): Set.prototype.delete
RemoveListener(l) ==
  /\ listeners' = SelectSeq(listeners, LAMBDA x : x # l)
  /\ lastOp' = Record("removeListener", l, None, None, FALSE, FALSE, <<>>, {})
  /\ UNCHANGED <<documents, persisted, pending, writeFailures>>

\* The page is loaded again: a new RAGManager is constructed on the same
\* localStorage; suspended calls and listeners of the old page are gone.
Restart ==
  /\ documents' = LoadDocuments(persisted)
  /\ listeners' = <<>>
  /\ pending' = {}
  /\ lastOp' = Record("constructor", None, None, None, FALSE, FALSE, <<>>, {})
  /\ UNCHANGED <<persisted, writeFailures>>

Next ==
  \/ \E file \in Files : AddDocumentStart(file)
  \/ \E file \in Files : AddDocumentResume(file)
  \/ \E docId \in DocIds : ToggleDocument(docId)
  \/ \E docId \in DocIds : RemoveDocument(docId)
  \/ ClearAll
  \/ \E l \in ListenerIds : AddListener(l)
  \/ \E l \in ListenerIds : RemoveListener(l)
  \/ Restart

Spec == Init /\ [][Next]_vars

\* ------------------------------------------------- the retriever on its own
\* A collection as an earlier session left it in localStorage: the i-th
\* Document was built by addDocument from a file and may have been toggled.
StoredDocument(file, i, active) ==
  [NewDocument(file, file.content,
               ChunkText(file.content, AddChunkSize, DefaultOverlap),
               <<i, CHOOSE r \in RandomSuffixes : TRUE>>, i)
     EXCEPT !.active = active]

StoredCollections ==
  LET Variant == {FileA, FileB} \X BOOLEAN
  IN UNION { { [i \in 1..n |-> StoredDocument(c[i][1], i, c[i][2])] :
               c \in [1..n -> Variant] } : n \in 0..MaxRetrieveDocs }

\* The state after construction on such a stored collection.
InitRetrieve ==
  /\ persisted \in {Stored(c) : c \in StoredCollections}
  /\ documents = LoadDocuments(persisted)
  /\ listeners = <<>>
  /\ pending = {}
  /\ writeFailures = 0
  /\ lastOp = [op |-> "constructor", arg |-> None, error |-> None, result |-> None,
               saved |-> FALSE, wrote |-> FALSE, calls |-> <<>>, threw |-> {},
               before |-> <<>>]

NextRetrieve == \E query \in Queries : Retrieve(query)

SpecRetrieve == InitRetrieve /\ [][NextRetrieve]_vars

\* ----------------------------------------------- the scorer on short texts
\* A Document whose chunks were cut with the given chunk size.
ChunkedDocument(file, chunkSize, i, active) ==
  [NewDocument(file, file.content,
               ChunkText(file.content, chunkSize, DefaultOverlap),
               <<i, CHOOSE r \in RandomSuffixes : TRUE>>, i)
     EXCEPT !.active = active]

\* The blank Document and the scenario's Document are taken active only.
ScoreCollections ==
  LET Toggled == {<<FileB, AddChunkSize>>, <<FileBanana, AddChunkSize>>}
      Untouched == {<<FileBlank, AddChunkSize>>,
                    <<ScenarioA.file, ScenarioA.chunkSize>>}
      Variant == (Toggled \X BOOLEAN) \cup (Untouched \X {TRUE})
  IN UNION { { [i \in 1..n |-> ChunkedDocument(c[i][1][1], c[i][1][2], i, c[i][2])] :
               c \in [1..n -> Variant] } : n \in 0..MaxScoreDocs }

InitScore ==
  /\ persisted \in {Stored(c) : c \in ScoreCollections}
  /\ documents = LoadDocuments(persisted)
  /\ listeners = <<>>
  /\ pending = {}
  /\ writeFailures = 0
  /\ lastOp = [op |-> "constructor", arg |-> None, error |-> None, result |-> None,
               saved |-> FALSE, wrote |-> FALSE, calls |-> <<>>, threw |-> {},
               before |-> <<>>]

NextScore == \E query \in ScoreQueries : Retrieve(query)

SpecScore == InitScore /\ [][NextScore]_vars

\* ----------------------------------------------------- the chunker on its own
\* chunkText(text, chunkSize, overlap)
ChunkTextCall(text) ==
  /\ \E chunkSize \in ChunkSizes, overlap \in Overlaps :
       lastOp' = Record("chunkText", <<text, chunkSize, overlap>>, None,
                        ChunkText(text, chunkSize, overlap),
                        FALSE, FALSE, <<>>, {})
  /\ UNCHANGED <<documents, persisted, listeners, pending, writeFailures>>

NextChunk == \E text \in ChunkTexts : ChunkTextCall(text)

SpecChunk == Init /\ [][NextChunk]_vars

\* ------------------------------------------------- overlapping addDocument
\* The text files that are uploaded while another upload is still being read.
OverlapFiles == {FileB, FileBanana}

NextOverlap ==
  \/ \E file \in OverlapFiles : AddDocumentStart(file)
  \/ \E file \in OverlapFiles : AddDocumentResume(file)
  \/ \E l \in ListenerIds : AddListener(l)

SpecOverlap == Init /\ [][NextOverlap]_vars

\* ------------------------------------------------- the counts of the store
\* getStats()
GetStatsCall ==
  /\ lastOp' = Record("getStats", None, None, GetStats(documents),
                      FALSE, FALSE, <<>>, {})
  /\ UNCHANGED <<documents, persisted, listeners, pending, writeFailures>>

\* Text files of different sizes and numbers of chunks.
StatsFiles == {FileB, FileBanana}

NextStats ==
  \/ \E file \in StatsFiles : AddDocumentStart(file)
  \/ \E file \in StatsFiles : AddDocumentResume(file)
  \/ \E docId \in DocIds : ToggleDocument(docId)
  \/ GetStatsCall

SpecStats == Init /\ [][NextStats]_vars

\* ------------------------------------------------ the formatter on results
\* Collections of active Documents: short ones, one cut into many chunks and
\* one whose text is a prompt saved earlier.
FormatCollections ==
  LET Source == {<<FileB, AddChunkSize>>, <<FileBanana, AddChunkSize>>,
                 <<FileTranscript, AddChunkSize>>,
                 <<ScenarioA.file, ScenarioA.chunkSize>>,
                 <<Tarts.file, Tarts.chunkSize>>}
  IN UNION { { [i \in 1..n |-> ChunkedDocument(c[i][1], c[i][2], i, TRUE)] :
               c \in [1..n -> Source] } : n \in 0..MaxScoreDocs }

InitFormat ==
  /\ persisted \in {Stored(c) : c \in FormatCollections}
  /\ documents = LoadDocuments(persisted)
  /\ listeners = <<>>
  /\ pending = {}
  /\ writeFailures = 0
  /\ lastOp = [op |-> "constructor", arg |-> None, error |-> None, result |-> None,
               saved |-> FALSE, wrote |-> FALSE, calls |-> <<>>, threw |-> {},
               before |-> <<>>]

\* formatContext(chunks) on the chunks a retrieveContext call returned.
FormatContextCall(query) ==
  /\ \E topK \in TopKs :
       LET outcome == RetrieveOutcome(documents, query, topK)
       IN /\ outcome.error = None
          /\ lastOp' = Record("formatContext", outcome.result, None,
                              FormatContext(outcome.result), FALSE, FALSE, <<>>, {})
  /\ UNCHANGED <<documents, persisted, listeners, pending, writeFailures>>

NextFormat == \E query \in FormatQueries : FormatContextCall(query)

SpecFormat == InitFormat /\ [][NextFormat]_vars

\* ------------------------------------- every store operation, reads included
\* retrieveContext(query) with the default topK, as the chat pipeline calls it.
RetrieveDefault(query) ==
  /\ LET outcome == RetrieveOutcome(documents, query, DefaultTopK)
     IN lastOp' = Record("retrieveContext", <<query, DefaultTopK>>, outcome.error,
                         outcome.result, FALSE, FALSE, <<>>, {})
  /\ UNCHANGED <<documents, persisted, listeners, pending, writeFailures>>

\* The listener the document manager UI registers.
ManagerListener == "updateUI"

\* The text file that is uploaded, once or again.
StoreFiles == {FileB}

NextStore ==
  \/ \E file \in StoreFiles : AddDocumentStart(file)
  \/ \E file \in StoreFiles : AddDocumentResume(file)
  \/ \E docId \in DocIds : ToggleDocument(docId)
  \/ \E docId \in DocIds : RemoveDocument(docId)
  \/ ClearAll
  \/ AddListener(ManagerListener)
  \/ RetrieveDefault(QueryApple)
  \/ GetStatsCall

SpecStore == Init /\ [][NextStore]_vars

\* ------------------------------------------------------- the reading calls
\* getDocuments()
GetDocumentsCall ==
  /\ lastOp' = Record("getDocuments", None, None, documents, FALSE, FALSE, <<>>, {})
  /\ UNCHANGED <<documents, persisted, listeners, pending, writeFailures>>

\* getActiveDocuments that keeps the filtered array as the collection.
GetActiveDocumentsCallKeeps ==
  /\ lastOp' = Record("getActiveDocuments", None, None,
                      ActiveDocuments(documents), FALSE, FALSE, <<>>, {})
  /\ documents' = ActiveDocuments(documents)
  /\ UNCHANGED <<persisted, listeners, pending, writeFailures>>

\* getActiveDocuments()
GetActiveDocumentsCall ==
  /\ lastOp' = Record("getActiveDocuments", None, None,
                      ActiveDocuments(documents), FALSE, FALSE, <<>>, {})
  /\ UNCHANGED <<documents, persisted, listeners, pending, writeFailures>>

\* getDocument(docId)
GetDocumentCall(docId) ==
  /\ lastOp' = Record("getDocument", docId, None, GetDocument(documents, docId),
                      FALSE, FALSE, <<>>, {})
  /\ UNCHANGED <<documents, persisted, listeners, pending, writeFailures>>

\* The queries of the reading calls: one that matches and one whose term is
\* not a regular expression.
ReadQueries == {QueryApple, QueryPlus}

\* A store constructed on a collection an earlier session left, a listener
\* registered on it, and every reading call.
NextRead ==
  \/ AddListener(ManagerListener)
  \/ \E query \in ReadQueries : RetrieveDefault(query)
  \/ GetDocumentsCall
  \/ GetActiveDocumentsCall
  \/ \E docId \in DocIds : GetDocumentCall(docId)
  \/ GetStatsCall
  \/ \E query \in ReadQueries : FormatContextCall(query)

SpecRead == InitRetrieve /\ [][NextRead]_vars

\* ----------------------------------------------------- the prompt enhancement
\* The texts a user sends: ones that match chunks, one that matches none and
\* one whose term is not a regular expression.
Messages == FormatQueries \cup {QueryPlus}

\* enhanceMessageWithContext(ragManager, userMessage)
EnhanceMessageCall(userMessage) ==
  /\ LET enhanced == EnhanceMessageWithContext(documents, userMessage)
     IN lastOp' = Record("enhanceMessageWithContext", userMessage, enhanced.error,
                         IF enhanced.error = None THEN enhanced.text ELSE None,
                         FALSE, FALSE, <<>>, {})
  /\ UNCHANGED <<documents, persisted, listeners, pending, writeFailures>>

\* sendMessage on the text typed, up to the content of the message for the API.
SendMessageCall(text) ==
  /\ LET content == MessageContent(documents, text)
     IN lastOp' = Record("sendMessage", text, content.error,
                         IF content.error = None THEN content.text ELSE None,
                         FALSE, FALSE, <<>>, {})
  /\ UNCHANGED <<documents, persisted, listeners, pending, writeFailures>>

NextEnhance ==
  \/ \E userMessage \in Messages : EnhanceMessageCall(userMessage)
  \/ \E text \in Messages : SendMessageCall(text)

SpecEnhance == InitFormat /\ [][NextEnhance]_vars

\* -------------------------------------------------------------- properties
\* The calls that change the collection.
MutatingOps == {"addDocument", "removeDocument", "toggleDocument", "clearAll"}

\* The name of every call recorded in calls, as a set.
Invoked(calls) == {calls[i].listener : i \in 1..Len(calls)}

\* C1: whenever a mutating operation has carried out its mutation and returned
\* to its caller, the collection persisted under the store's key equals the
\* in-memory collection.
C1_WriteThrough ==
  (lastOp.op \in MutatingOps /\ lastOp.saved) => persisted = Stored(documents)

\* C2: a step in which addDocument fails leaves the in-memory collection and
\* the persisted collection exactly as they were, so nothing of the failed call
\* is added.
C2_AllOrNothing ==
  [][(lastOp'.op = "addDocument" /\ lastOp'.error # None)
       => (documents' = documents /\ persisted' = persisted)]_vars

\* C2 witness: addDocument has failed on its byte read while the collection
\* holds a Document and a listener is registered.
C2_Witness ==
  /\ lastOp.op = "addDocument" /\ lastOp.error = "ReadFailure"
  /\ Len(documents) > 0
  /\ Len(listeners) > 0

BinaryNames == {FilePdf.name, FileDocx.name}

\* C3: every addDocument call on a file of the PDF or the DOCX mime type raises
\* the unsupported-format error, and getStats().total is the same after the
\* call as before it.
C3_BinaryAlwaysUnsupported ==
  [][(lastOp'.op = "addDocument" /\ lastOp'.arg \in BinaryNames)
       => (/\ lastOp'.error \in UnsupportedErrors
           /\ GetStats(documents').total = GetStats(documents).total)]_vars

\* C4: when a listener throws during a notification, every registered listener
\* is still invoked and the operation that notified returns without an error.
C4_ListenerIsolation ==
  (lastOp.saved /\ lastOp.threw # {})
    => (Registered \subseteq Invoked(lastOp.calls) /\ lastOp.error = None)

\* C4 witness: the first of two registered listeners threw and the second was
\* still invoked.
C4_Witness ==
  /\ lastOp.saved
  /\ Len(listeners) = 2
  /\ listeners[1] \in lastOp.threw
  /\ listeners[2] \in Invoked(lastOp.calls)
  /\ lastOp.error = None

\* C5: after every operation that mutated the collection, every registered
\* listener has been invoked, and each invocation received the collection as
\* it is after the mutation.
C5_NotifiedWithCurrent ==
  (lastOp.op \in MutatingOps /\ lastOp.saved)
    => (/\ Registered \subseteq Invoked(lastOp.calls)
        /\ \A i \in 1..Len(lastOp.calls) : lastOp.calls[i].arg = documents)

\* C5 witness: a removal that left a Document behind notified two listeners.
C5_Witness ==
  /\ lastOp.op = "removeDocument" /\ lastOp.saved
  /\ Len(listeners) = 2
  /\ Len(lastOp.calls) = 2
  /\ Len(documents) = 1

\* The collection without the Document at position i.
Drop(docs, i) == [j \in 1..(Len(docs) - 1) |->
                    IF j < i THEN docs[j] ELSE docs[j + 1]]

\* Both collections give the same retrieveContext result for every query and
\* every topK.
SameRetrieval(docsA, docsB) ==
  \A query \in Queries : \A topK \in TopKs :
    RetrieveOutcome(docsA, query, topK) = RetrieveOutcome(docsB, query, topK)

\* An inactive Document contributes nothing to any retrieveContext result:
\* every result is what it would be without that Document, and when the id is
\* the Document's alone no entry of any result carries it.
InactiveIsInvisible ==
  \A i \in 1..Len(documents) :
    ~documents[i].active =>
      /\ SameRetrieval(documents, Drop(documents, i))
      /\ (\A j \in 1..Len(documents) : documents[j].id = documents[i].id => j = i)
           => \A query \in Queries :
                LET result == RetrieveOutcome(documents, query, MaxTopK).result
                IN \A n \in 1..Len(result) : result[n].docId # documents[i].id

\* A toggleDocument step changes nothing but the active flag of the Document
\* it found.
ToggleKeepsContent ==
  lastOp'.op = "toggleDocument" =>
    /\ Len(documents') = Len(documents)
    /\ \A i \in 1..Len(documents) :
         /\ documents'[i].chunks = documents[i].chunks
         /\ documents'[i].content = documents[i].content
         /\ documents'[i] = [documents[i] EXCEPT !.active = documents'[i].active]
         /\ (documents'[i].active # documents[i].active)
              <=> (lastOp'.saved /\ i = FindIndex(documents, lastOp'.arg))

\* A toggle that switched a Document off, followed by a toggle of the same
\* Document, gives the retrieveContext results of before the first toggle.
ToggleBackRestores ==
  ( /\ lastOp.op = "toggleDocument" /\ lastOp.saved
    /\ lastOp.before[FindIndex(lastOp.before, lastOp.arg)].active
    /\ lastOp'.op = "toggleDocument" /\ lastOp'.arg = lastOp.arg )
  => SameRetrieval(documents', lastOp.before)

\* C6: once toggleDocument has set a Document's active flag to false no
\* retrieveContext result contains a chunk of it; toggling it back gives the
\* results of before the first toggle; and no toggle changes the chunks or the
\* content of any Document.
C6_ActiveFiltering ==
  /\ []InactiveIsInvisible
  /\ [][ToggleKeepsContent]_vars
  /\ [][ToggleBackRestores]_vars

\* C6 witness: a toggle has just switched off a Document that matches a query,
\* beside another Document, and the retrieveContext result lost its chunk.
C6_Witness ==
  /\ lastOp.op = "toggleDocument" /\ lastOp.saved
  /\ Len(documents) = 2
  /\ LET i == FindIndex(documents, lastOp.arg)
     IN /\ ~documents[i].active
        /\ lastOp.before[i].active
        /\ Len(RetrieveContext(lastOp.before, QueryApple, MaxTopK)) = 2
        /\ Len(RetrieveContext(documents, QueryApple, MaxTopK)) = 1

\* The position in the collection of the Document with this id (ids are
\* distinct in the stored collections), 0 if there is none.
DocPosition(docId) == FindIndex(documents, docId)

\* The chunks of active Documents that score above zero for the query, each as
\* <<position of its Document, its 0-based chunk index>>.
Qualifying(query) ==
  {p \in UNION {{<<i, j - 1>> : j \in 1..Len(documents[i].chunks)} :
                 i \in 1..Len(documents)} :
     /\ documents[p[1]].active
     /\ ChunkScore(ToLowerCase(documents[p[1]].chunks[p[2] + 1]), Tokenize(query)) > 0}

\* The score of a qualifying chunk.
ScoreOf(p, query) ==
  ChunkScore(ToLowerCase(documents[p[1]].chunks[p[2] + 1]), Tokenize(query))

\* The entries of a result, each as <<position of its Document, chunk index>>.
Returned(result) ==
  {<<DocPosition(result[n].docId), result[n].chunkIndex>> : n \in 1..Len(result)}

\* The last call was a retrieveContext that returned.
Retrieved == lastOp.op = "retrieveContext" /\ lastOp.error = None

\* C7: every entry of a retrieveContext result comes from a Document that is in
\* the collection and active: it carries that Document's id and name, its
\* chunkIndex is a valid 0-based index into the Document's chunks and its chunk
\* is the text at that index; no entry carries the id of an inactive Document.
C7_FromActiveDocuments ==
  Retrieved =>
    /\ \A n \in 1..Len(lastOp.result) :
         LET sc == lastOp.result[n]
         IN \E i \in 1..Len(documents) :
              /\ documents[i].active
              /\ sc.docId = documents[i].id
              /\ sc.docName = documents[i].name
              /\ sc.chunkIndex \in 0..(Len(documents[i].chunks) - 1)
              /\ sc.chunk = documents[i].chunks[sc.chunkIndex + 1]
    /\ \A i \in 1..Len(documents) :
         ~documents[i].active =>
           \A n \in 1..Len(lastOp.result) : lastOp.result[n].docId # documents[i].id

\* C7 witness: of two Documents that both match the query the first is active
\* and the second is not, and the result holds chunks of the first only.
C7_Witness ==
  /\ Retrieved /\ lastOp.arg[1] = QueryApple
  /\ Len(documents) = 2
  /\ documents[1].active /\ ~documents[2].active
  /\ documents[1].name = FileA.name /\ documents[2].name = FileB.name
  /\ Len(lastOp.result) = 2
  /\ \A n \in 1..2 : lastOp.result[n].docId = documents[1].id
  /\ lastOp.result[2].chunkIndex = 1

\* C8 as stated: for every query, collection and k the result has no more than
\* k entries, and when fewer than k chunks qualify it holds exactly the
\* qualifying chunks.
C8_TopKBound ==
  Retrieved =>
    LET topK == lastOp.arg[2]
        qualifying == Qualifying(lastOp.arg[1])
    IN /\ Len(lastOp.result) <= topK
       /\ Cardinality(qualifying) < topK =>
            /\ Len(lastOp.result) = Cardinality(qualifying)
            /\ Returned(lastOp.result) = qualifying

\* C8 as amended: for every query, collection and k >= 0 the result has no more
\* than k entries, and when fewer than k chunks qualify it holds exactly the
\* qualifying chunks.
C8_TopKBoundFromZero ==
  (Retrieved /\ lastOp.arg[2] >= 0) =>
    LET topK == lastOp.arg[2]
        qualifying == Qualifying(lastOp.arg[1])
    IN /\ Len(lastOp.result) <= topK
       /\ Cardinality(qualifying) < topK =>
            /\ Len(lastOp.result) = Cardinality(qualifying)
            /\ Returned(lastOp.result) = qualifying

\* C8 witness: two chunks qualify, topK is 3 and the result has exactly two
\* entries.
C8_Witness ==
  /\ Retrieved /\ lastOp.arg[2] = 3
  /\ Cardinality(Qualifying(lastOp.arg[1])) = 2
  /\ Len(lastOp.result) = 2

\* C9: two entries of a result with equal score stand in emission order: the
\* one whose Document comes first in the collection is first, and of two chunks
\* of one Document the one with the lower chunkIndex is first.
C9_StableTieBreak ==
  Retrieved =>
    \A a \in 1..Len(lastOp.result) : \A b \in (a + 1)..Len(lastOp.result) :
      lastOp.result[a].score = lastOp.result[b].score =>
        LET pa == DocPosition(lastOp.result[a].docId)
            pb == DocPosition(lastOp.result[b].docId)
        IN \/ pa < pb
           \/ pa = pb /\ lastOp.result[a].chunkIndex < lastOp.result[b].chunkIndex

\* C9 witness: a result of three entries of one score, the first two from the
\* first Document in chunk order and the third from the second Document.
C9_Witness ==
  /\ Retrieved
  /\ Len(lastOp.result) = 3
  /\ lastOp.result[1].score = lastOp.result[3].score
  /\ DocPosition(lastOp.result[1].docId) = 1 /\ lastOp.result[1].chunkIndex = 0
  /\ DocPosition(lastOp.result[2].docId) = 1 /\ lastOp.result[2].chunkIndex = 1
  /\ DocPosition(lastOp.result[3].docId) = 2

\* C10: the scores of a result never increase along it, and no qualifying chunk
\* left out of the result scores strictly higher than an entry of the result.
C10_DescendingTopK ==
  Retrieved =>
    /\ \A n \in 1..(Len(lastOp.result) - 1) :
         lastOp.result[n].score >= lastOp.result[n + 1].score
    /\ \A p \in Qualifying(lastOp.arg[1]) \ Returned(lastOp.result) :
         \A n \in 1..Len(lastOp.result) :
           ScoreOf(p, lastOp.arg[1]) <= lastOp.result[n].score

\* C10 witness: the chunk emitted last scores highest and heads the result,
\* ahead of a lower-scoring entry, and a qualifying chunk is left out.
C10_Witness ==
  /\ Retrieved
  /\ Len(lastOp.result) = 2
  /\ lastOp.result[1].score > lastOp.result[2].score
  /\ DocPosition(lastOp.result[1].docId) = 2
  /\ DocPosition(lastOp.result[2].docId) = 1
  /\ Qualifying(lastOp.arg[1]) \ Returned(lastOp.result) # {}

\* The positions at which term stands in text, character for character.
Occurrences(text, term) ==
  {j \in 1..(Len(text) - Len(term) + 1) :
     \A k \in 1..Len(term) : text[j + k - 1] = term[k]}

\* The chunks of the active Documents, lowercased, as a set.
ActiveChunksLower ==
  UNION {{ToLowerCase(documents[i].chunks[j]) : j \in 1..Len(documents[i].chunks)} :
          i \in {i \in 1..Len(documents) : documents[i].active}}

\* No token of the query stands in any chunk of an active Document.
MatchesNoChunk(query) ==
  \A c \in ActiveChunksLower :
    \A t \in 1..Len(Tokenize(query)) : Occurrences(c, Tokenize(query)[t]) = {}

\* C11: a retrieveContext call with an empty query, or with a query none of
\* whose tokens stands in any chunk, does not raise and returns the empty
\* sequence, whatever characters the query is written in.
C11_NeverRaises ==
  (lastOp.op = "retrieveContext"
     /\ (lastOp.arg[1] = QueryEmpty \/ MatchesNoChunk(lastOp.arg[1])))
    => (lastOp.error = None /\ lastOp.result = <<>>)

\* The largest number of occurrences of term in text no two of which overlap.
DisjointOccurrences(text, term) ==
  LET occ == Occurrences(text, term)
      apart == {S \in SUBSET occ :
                  \A a \in S : \A b \in S : a < b => b - a >= Len(term)}
  IN CHOOSE n \in 0..Cardinality(occ) :
       /\ \E S \in apart : Cardinality(S) = n
       /\ \A S \in apart : Cardinality(S) <= n

\* The sum over the terms of the occurrences of each in the chunk: all of
\* them, or the most that do not overlap.
RECURSIVE OccurrenceSum(_, _, _)
OccurrenceSum(chunkLower, terms, overlapping) ==
  IF terms = <<>> THEN 0
  ELSE (IF overlapping THEN Cardinality(Occurrences(chunkLower, Head(terms)))
        ELSE DisjointOccurrences(chunkLower, Head(terms)))
       + OccurrenceSum(chunkLower, Tail(terms), overlapping)

\* The chunks of active Documents, each as <<position of its Document, its
\* 0-based chunk index>>.
ActiveChunks ==
  {p \in UNION {{<<i, j - 1>> : j \in 1..Len(documents[i].chunks)} :
                 i \in 1..Len(documents)} : documents[p[1]].active}

\* The occurrence sum of the chunk at p for the query.
SumAt(p, query, overlapping) ==
  OccurrenceSum(ToLowerCase(documents[p[1]].chunks[p[2] + 1]), Tokenize(query),
                overlapping)

\* Every entry of the result carries the occurrence sum of its chunk, which is
\* at least 1, and when topK cuts nothing off the entries are exactly the
\* chunks of active Documents whose sum is above zero.
ScoredBySum(overlapping) ==
  LET query == lastOp.arg[1]
      emitted == {p \in ActiveChunks : SumAt(p, query, overlapping) > 0}
  IN /\ \A n \in 1..Len(lastOp.result) :
          LET sc == lastOp.result[n]
          IN /\ sc.score \in Nat \ {0}
             /\ sc.score = SumAt(<<DocPosition(sc.docId), sc.chunkIndex>>, query,
                                 overlapping)
     /\ Returned(lastOp.result) \subseteq emitted
     /\ (lastOp.arg[2] >= Cardinality(emitted))
          => Returned(lastOp.result) = emitted

\* Every token of the query is written in letters only.
LiteralQuery(query) ==
  \A t \in 1..Len(Tokenize(query)) :
    \A k \in 1..Len(Tokenize(query)[t]) : Tokenize(query)[t][k] # Quantifier

\* C12 as stated: the score of a chunk is the sum over the query tokens of the
\* count of all, possibly overlapping, case-insensitive occurrences of the
\* token in it; a ScoredChunk is emitted exactly when the sum is above zero,
\* and every returned score is an integer >= 1.
C12_OverlappingOccurrences == Retrieved => ScoredBySum(TRUE)

\* C12 as amended: for tokens of letters the score of a chunk is the sum over
\* the query tokens of the number of non-overlapping case-insensitive
\* occurrences of the token in it, as a left-to-right global match finds them;
\* a ScoredChunk is emitted exactly when the sum is above zero, and every
\* returned score is an integer >= 1.
C12_DisjointOccurrences ==
  (Retrieved /\ LiteralQuery(lastOp.arg[1])) => ScoredBySum(FALSE)

\* C12 witness: a chunk in which the token stands three times, two of them
\* overlapping, is returned with score 2.
C12_Witness ==
  /\ Retrieved /\ lastOp.arg[1] = QueryOverlap
  /\ Len(lastOp.result) = 1
  /\ lastOp.result[1].score = 2
  /\ Cardinality(Occurrences(ToLowerCase(lastOp.result[1].chunk), QueryOverlap)) = 3

\* The query has no three consecutive characters without whitespace among
\* them: each of its whitespace-separated tokens has length <= 2.
NoLongToken(query) ==
  \A i \in 1..(Len(query) - MinTermLength) :
    \E k \in 0..MinTermLength : query[i + k] \in Whitespace

\* No Document of the collection is active.
NoActiveDocument == \A i \in 1..Len(documents) : ~documents[i].active

\* C13: a retrieveContext call made while no Document is active, or with a
\* query all of whose tokens have length <= 2, returns the empty sequence,
\* whatever the chunks hold.
C13_EmptyWithoutTokens ==
  (lastOp.op = "retrieveContext"
     /\ (NoActiveDocument \/ NoLongToken(lastOp.arg[1])))
    => (lastOp.error = None /\ lastOp.result = <<>>)

\* C13 witness: a query of two short tokens, one of which stands in a chunk of
\* an active Document, has returned the empty sequence.
C13_Witness ==
  /\ lastOp.op = "retrieveContext" /\ lastOp.arg[1] = QueryShort
  /\ lastOp.arg[2] = DefaultTopK
  /\ \E c \in ActiveChunksLower : Occurrences(c, <<"a", "n">>) # {}
  /\ lastOp.result = <<>>

\* The last call was a chunkText; its arguments and the chunks it returned.
Chunked == lastOp.op = "chunkText"
ChunkedText == lastOp.arg[1]
ChunkedSize == lastOp.arg[2]
ChunkedOverlap == lastOp.arg[3]

\* The text holds a character that is not whitespace.
HasContent(text) == \E i \in 1..Len(text) : text[i] \notin Whitespace

\* C14: for a text that is not empty and not whitespace only, chunkText returns
\* at least one chunk, whatever chunkSize and overlap; for an empty or
\* whitespace-only text it returns none; and no chunk it returns is empty or
\* changed by trimming away to nothing.
C14_ChunkNonEmptiness ==
  Chunked =>
    /\ HasContent(ChunkedText) <=> Len(lastOp.result) >= 1
    /\ \A k \in 1..Len(lastOp.result) : HasContent(lastOp.result[k])

\* C14 witness: a text of terminators only gave one chunk, at chunk size 0.
C14_Witness ==
  /\ Chunked /\ ChunkedText = TextDots /\ ChunkedSize = 0
  /\ lastOp.result = <<TextDots>>

\* The sentences of the text that are longer than chunkSize and stand in the
\* text once, each trimmed.
OversizedSentences(text, chunkSize) ==
  {Trim(Sentences(text)[i]) : i \in {i \in 1..Len(Sentences(text)) :
     /\ Len(Sentences(text)[i]) > chunkSize
     /\ Cardinality(Occurrences(text, Trim(Sentences(text)[i]))) = 1}}

\* The chunks of the result in which the piece stands whole.
ChunksHolding(piece) ==
  {k \in 1..Len(lastOp.result) : Occurrences(lastOp.result[k], piece) # {}}

\* C15 as stated: a sentence longer than chunkSize stands whole in exactly one
\* chunk of the output of chunkText.
C15_OversizedInExactlyOne ==
  Chunked =>
    \A sentence \in OversizedSentences(ChunkedText, ChunkedSize) :
      Cardinality(ChunksHolding(sentence)) = 1

\* C15 as amended: a sentence longer than chunkSize is never split: it stands
\* whole in at least one chunk of the output of chunkText (the chunks after it
\* may repeat it as overlap).
C15_OversizedWhole ==
  Chunked =>
    \A sentence \in OversizedSentences(ChunkedText, ChunkedSize) :
      Cardinality(ChunksHolding(sentence)) >= 1

\* C15 witness: at chunk size 10 and overlap 50 the first sentence of the
\* scenario text, 13 characters long, stands whole in all three chunks.
C15_Witness ==
  /\ Chunked /\ ChunkedText = TextScenarioA
  /\ ChunkedSize = 10 /\ ChunkedOverlap = DefaultOverlap
  /\ Trim(Sentences(TextScenarioA)[1]) \in OversizedSentences(ChunkedText, ChunkedSize)
  /\ ChunksHolding(Trim(Sentences(TextScenarioA)[1])) = {1, 2, 3}

\* The text with its whitespace taken out.
NoWhitespace(text) == SelectSeq(text, LAMBDA c : c \notin Whitespace)

IsPrefix(a, b) == Len(a) <= Len(b) /\ SubSeq(b, 1, Len(a)) = a
IsSuffix(a, b) == Len(a) <= Len(b) /\ SubSeq(b, Len(b) - Len(a) + 1, Len(b)) = a

\* Chunks k.. rebuild the target when a prefix can be stripped from each that
\* ends the chunk before it, and what is left of the chunks, in order, is the
\* target.  Whitespace is disregarded throughout.
RECURSIVE Rebuilds(_, _, _)
Rebuilds(chunks, k, target) ==
  IF k > Len(chunks) THEN target = <<>>
  ELSE \E cut \in 0..(IF k = 1 THEN 0 ELSE Len(chunks[k])) :
         LET rest == SubSeq(chunks[k], cut + 1, Len(chunks[k]))
         IN /\ k > 1 => IsSuffix(SubSeq(chunks[k], 1, cut), chunks[k - 1])
            /\ IsPrefix(rest, target)
            /\ Rebuilds(chunks, k + 1, SubSeq(target, Len(rest) + 1, Len(target)))

\* C16: the chunks chunkText returns, in order and with the seeded overlap
\* prefix stripped from every chunk but the first, rebuild the input text:
\* every sentence once, in input order, and nothing of the input lost.
C16_ChunksRebuildText ==
  Chunked =>
    Rebuilds([k \in 1..Len(lastOp.result) |-> NoWhitespace(lastOp.result[k])],
             1, NoWhitespace(ChunkedText))

\* The sequences of a sequence joined end to end.
RECURSIVE Flatten(_)
Flatten(seqs) == IF seqs = <<>> THEN <<>> ELSE Head(seqs) \o Flatten(Tail(seqs))

\* C17: when overlap is below 5, so that floor(overlap / 5) is zero, no overlap
\* fragment is seeded: no chunk holds words carried over from the chunk closed
\* before it, and the chunks, end to end, are the sentences, each once.
C17_NoSeedBelowFive ==
  (Chunked /\ ChunkedOverlap < CharsPerWord) =>
    NoWhitespace(Flatten(lastOp.result))
      = NoWhitespace(Flatten(Sentences(ChunkedText)))

\* The collection is the one Document of Scenario A, active, cut at the
\* scenario's chunk size, and the last call retrieved the scenario's query
\* with the default topK.
ScenarioARetrieved ==
  /\ Retrieved
  /\ lastOp.arg = <<ScenarioA.query, DefaultTopK>>
  /\ Len(documents) = 1
  /\ documents[1].active
  /\ documents[1].content = ScenarioA.file.content
  /\ documents[1].chunks
       = ChunkText(ScenarioA.file.content, ScenarioA.chunkSize, DefaultOverlap)

\* Every entry of the result holds the scenario's query and has score 1.
EachHoldsQueryOnce ==
  \A n \in 1..Len(lastOp.result) :
    /\ Occurrences(lastOp.result[n].chunk, ScenarioA.query) # {}
    /\ lastOp.result[n].score = 1

\* C18 as stated: Scenario A yields more than one chunk, and retrieving "two"
\* returns exactly one ScoredChunk, which holds "two" and has score 1.
C18_ScenarioAOneChunk ==
  ScenarioARetrieved =>
    /\ Len(documents[1].chunks) > 1
    /\ Len(lastOp.result) = 1
    /\ EachHoldsQueryOnce

\* C18 as amended: Scenario A yields three chunks, and retrieving "two" returns
\* exactly two ScoredChunks, the second and the third chunk in that order,
\* each of which holds "two" and has score 1.
C18_ScenarioATwoChunks ==
  ScenarioARetrieved =>
    /\ Len(documents[1].chunks) = 3
    /\ Len(lastOp.result) = 2
    /\ lastOp.result[1].chunkIndex = 1
    /\ lastOp.result[2].chunkIndex = 2
    /\ EachHoldsQueryOnce

\* C18 witness: Scenario A has been retrieved and its third chunk, which
\* starts with the overlap seed, is in the result.
C18_Witness ==
  /\ ScenarioARetrieved
  /\ Len(lastOp.result) = 2
  /\ IsPrefix(documents[1].chunks[2], lastOp.result[2].chunk)

\* C19: no two Documents in the collection share an id, whatever addDocument,
\* removeDocument and clearAll calls came before.
C19_UniqueIds ==
  \A i \in 1..Len(documents) : \A j \in 1..Len(documents) :
    documents[i].id = documents[j].id => i = j

\* The Document is complete as addDocument builds it from a text file: its
\* chunks are those of its content and it has an id, a name and a flag.
FullyBuilt(doc) ==
  /\ DOMAIN doc = {"id", "name", "type", "size", "content", "chunks", "addedAt",
                   "active"}
  /\ doc.id \in DocIds
  /\ doc.active \in BOOLEAN
  /\ doc.size = Len(doc.content)
  /\ doc.chunks = ChunkText(doc.content, AddChunkSize, DefaultOverlap)

\* Whatever can be observed holds fully built Documents only: the collection,
\* the persisted snapshot and the arguments handed to listeners.
OnlyFullyBuiltVisible ==
  /\ \A i \in 1..Len(documents) : FullyBuilt(documents[i])
  /\ \A i \in 1..Len(LoadDocuments(persisted)) :
       FullyBuilt(LoadDocuments(persisted)[i])
  /\ \A c \in 1..Len(lastOp.calls) :
       \A i \in 1..Len(lastOp.calls[c].arg) : FullyBuilt(lastOp.calls[c].arg[i])

\* The step that suspends an addDocument on the file read changes nothing
\* that can be observed.
SuspendedShowsNothing ==
  lastOp'.op = "addDocument:await" =>
    (documents' = documents /\ persisted' = persisted /\ lastOp'.calls = <<>>)

\* The step in which an addDocument returns its Document appends it, active,
\* persists the collection and hands the collection to every listener.
VisibleAtOnce ==
  (lastOp'.op = "addDocument" /\ lastOp'.error = None) =>
    /\ documents' = Append(documents, lastOp'.result)
    /\ FullyBuilt(lastOp'.result) /\ lastOp'.result.active
    /\ persisted' = Stored(documents')
    /\ Len(lastOp'.calls) = Len(listeners)
    /\ \A c \in 1..Len(lastOp'.calls) : lastOp'.calls[c].arg = documents'

\* C20: while an addDocument is suspended on the file read nothing observes
\* the Document being built, and the Document becomes visible in one step in
\* which it is fully built, appended, persisted and announced to listeners.
C20_AtomicIngestion ==
  /\ []OnlyFullyBuiltVisible
  /\ [][SuspendedShowsNothing]_vars
  /\ [][VisibleAtOnce]_vars

\* The same without the persisted snapshot at the step of becoming visible.
VisibleAtOnceInMemory ==
  (lastOp'.op = "addDocument" /\ lastOp'.error = None) =>
    /\ documents' = Append(documents, lastOp'.result)
    /\ FullyBuilt(lastOp'.result) /\ lastOp'.result.active
    /\ lastOp'.wrote => persisted' = Stored(documents')
    /\ Len(lastOp'.calls) = Len(listeners)
    /\ \A c \in 1..Len(lastOp'.calls) : lastOp'.calls[c].arg = documents'

AtomicIngestionInMemory ==
  /\ []OnlyFullyBuiltVisible
  /\ [][SuspendedShowsNothing]_vars
  /\ [][VisibleAtOnceInMemory]_vars

\* An addDocument step that returns a Document has appended that Document,
\* built from the file of the call, to the collection as it was; every other
\* step of an upload leaves the collection as it was.
AppendsItsOwn ==
  IF lastOp'.op = "addDocument" /\ lastOp'.error = None
  THEN /\ documents' = Append(documents, lastOp'.result)
       /\ \E file \in pending :
            /\ lastOp'.arg = file.name
            /\ lastOp'.result.name = file.name
            /\ lastOp'.result.content = file.content
            /\ pending' = pending \ {file}
  ELSE documents' = documents

\* C21: when addDocument calls overlap, each one that succeeds appends its
\* Document to the collection exactly once, in whatever order the file reads
\* complete: no step of an upload loses or repeats an append.
C21_OverlappingAppends == [][AppendsItsOwn]_vars

\* C21 witness: an upload has completed and appended its Document while
\* another upload, started before that, is still suspended on its file read.
C21_Witness ==
  /\ lastOp.op = "addDocument" /\ lastOp.error = None
  /\ pending # {}
  /\ Len(documents) = 1
  /\ documents[1] = lastOp.result

\* The positions of the Documents that do not carry this id.
OtherPositions(docs, docId) == {i \in 1..Len(docs) : docs[i].id # docId}

\* after is before without the Documents of this id: every other Document is
\* there, unchanged, and they are in the order they were in.
RemovedFrom(before, after, docId) ==
  LET keep == OtherPositions(before, docId)
  IN /\ Len(after) = Cardinality(keep)
     /\ \A i \in keep : after[Cardinality({j \in keep : j <= i})] = before[i]

\* Every registered listener has been called, in order, with this collection.
NotifiedOf(calls, ls, docs) ==
  /\ Len(calls) = Len(ls)
  /\ \A c \in 1..Len(calls) : calls[c].listener = ls[c] /\ calls[c].arg = docs

\* A removeDocument step returns normally, takes the Documents of the id out of
\* the collection and nothing else, and notifies the listeners of the result.
RemoveInMemory ==
  lastOp'.op = "removeDocument" =>
    /\ lastOp'.error = None
    /\ RemovedFrom(documents, documents', lastOp'.arg)
    /\ (FindIndex(documents, lastOp'.arg) = 0 => documents' = documents)
    /\ NotifiedOf(lastOp'.calls, listeners, documents')

\* When the call of this name has mutated the collection and returned, the
\* collection persisted is the collection in memory: a store constructed now
\* would load that collection.
PersistedAfter(op) ==
  (lastOp.op = op /\ lastOp.saved) => LoadDocuments(persisted) = documents

\* C22: removeDocument(id) removes the Document of that id when there is one
\* and keeps every other Document unchanged and in order; when there is none it
\* raises nothing and keeps the collection; either way the collection is
\* persisted and the listeners are notified.
C22_RemoveDocument ==
  /\ [][RemoveInMemory]_vars
  /\ []PersistedAfter("removeDocument")

\* The part of C22 that does not depend on the write to localStorage, with the
\* persisted collection equal to the one in memory whenever the write went through.
RemoveDocumentInMemory ==
  /\ [][RemoveInMemory]_vars
  /\ [](lastOp.wrote => PersistedAfter("removeDocument"))

\* The fields of a Document other than its active flag.
IngestedFields == {"id", "name", "type", "size", "content", "chunks", "addedAt"}

\* Both Documents have the same ingested fields.
SameIngested(docA, docB) == \A f \in IngestedFields : docA[f] = docB[f]

\* A toggleDocument step on an id that is present returns normally, negates the
\* active flag of the Document found, leaves its other fields and every other
\* Document as they were, and notifies the listeners of the result.
ToggleInMemory ==
  (lastOp'.op = "toggleDocument" /\ FindIndex(documents, lastOp'.arg) # 0) =>
    LET i == FindIndex(documents, lastOp'.arg)
    IN /\ lastOp'.error = None /\ lastOp'.saved
       /\ Len(documents') = Len(documents)
       /\ \A j \in 1..Len(documents) : j # i => documents'[j] = documents[j]
       /\ documents'[i].active = ~documents[i].active
       /\ DOMAIN documents'[i] = DOMAIN documents[i]
       /\ SameIngested(documents'[i], documents[i])
       /\ NotifiedOf(lastOp'.calls, listeners, documents')

\* A toggle that follows a toggle of the same id gives back the collection the
\* first of the two found.
ToggleTwiceRestores ==
  ( /\ lastOp.op = "toggleDocument" /\ lastOp.saved
    /\ lastOp'.op = "toggleDocument" /\ lastOp'.arg = lastOp.arg )
  => documents' = lastOp.before

\* C23: toggleDocument(id) on a Document that is present flips the active flag
\* of exactly that Document and changes nothing else, then persists the
\* collection and notifies the listeners; two toggles of the same id in a row
\* restore the collection.
C23_ToggleDocument ==
  /\ [][ToggleInMemory]_vars
  /\ [][ToggleTwiceRestores]_vars
  /\ []PersistedAfter("toggleDocument")

\* The part of C23 that does not depend on the write to localStorage, with the
\* persisted collection equal to the one in memory whenever the write went through.
ToggleDocumentInMemory ==
  /\ [][ToggleInMemory]_vars
  /\ [][ToggleTwiceRestores]_vars
  /\ [](lastOp.wrote => PersistedAfter("toggleDocument"))

\* getStats() with every count at zero.
ZeroStats == [total |-> 0, active |-> 0, totalSize |-> 0, totalChunks |-> 0]

\* The queries of every kind, those that are not a valid pattern included.
AllQueries == Queries \cup ScoreQueries

\* Nothing can be read from the store: the counts are zero, no id finds a
\* Document, and every retrieveContext call returns the empty sequence.
NothingToRead ==
  /\ GetStats(documents) = ZeroStats
  /\ \A docId \in DocIds : GetDocument(documents, docId).null
  /\ \A query \in AllQueries : \A topK \in TopKs :
       RetrieveOutcome(documents, query, topK) = [error |-> None, result |-> <<>>]

\* When clearAll has returned it has raised nothing, the collection is empty,
\* every listener has been called with the empty collection, and nothing can
\* be read from the store.
ClearedInMemory ==
  lastOp.op = "clearAll" =>
    /\ lastOp.error = None
    /\ documents = <<>>
    /\ NotifiedOf(lastOp.calls, listeners, <<>>)
    /\ NothingToRead

\* C24: clearAll() from any state leaves the collection empty, persists the
\* empty collection and notifies the listeners; afterwards getStats() is all
\* zeros, getDocument finds nothing and retrieveContext returns nothing.
C24_ClearAll == ClearedInMemory /\ PersistedAfter("clearAll")

\* The part of C24 that does not depend on the write to localStorage, with the
\* persisted collection empty whenever the write went through.
ClearAllInMemory ==
  ClearedInMemory /\ (lastOp.wrote => PersistedAfter("clearAll"))

\* The sum of amount[x] over the elements x of a finite set.
RECURSIVE SumOver(_, _)
SumOver(S, amount) ==
  IF S = {} THEN 0
  ELSE LET x == CHOOSE y \in S : TRUE
       IN amount[x] + SumOver(S \ {x}, amount)

\* The counts of the collection, taken position by position.
CountsOf(docs) ==
  LET positions == 1..Len(docs)
  IN [total |-> Cardinality(positions),
      active |-> Cardinality({i \in positions : docs[i].active}),
      totalSize |-> SumOver(positions, [i \in positions |-> docs[i].size]),
      totalChunks |-> SumOver(positions, [i \in positions |-> Len(docs[i].chunks)])]

\* getStats() gives the counts of the collection, in every state and in the
\* call that has just returned.
StatsAgree ==
  /\ GetStats(documents) = CountsOf(documents)
  /\ GetStats(documents).active \in 0..GetStats(documents).total
  /\ lastOp.op = "getStats" => lastOp.result = CountsOf(documents)

\* A toggleDocument step changes no count but the number of active Documents.
ToggleKeepsTotals ==
  lastOp'.op = "toggleDocument" =>
    /\ GetStats(documents').total = GetStats(documents).total
    /\ GetStats(documents').totalSize = GetStats(documents).totalSize
    /\ GetStats(documents').totalChunks = GetStats(documents).totalChunks

\* C25: in every reachable state getStats() agrees with the collection: total
\* counts the Documents, active those with active = true, totalSize adds up
\* the sizes and totalChunks the numbers of chunks of all Documents, active or
\* not, so that a toggle changes none of total, totalSize and totalChunks.
C25_StatsAgree == []StatsAgree /\ [][ToggleKeepsTotals]_vars

\* C25 witness: getStats() has returned on a collection of two Documents of
\* different sizes, one of them switched off and holding chunks.
C25_Witness ==
  /\ lastOp.op = "getStats"
  /\ Len(documents) = 2
  /\ documents[1].size # documents[2].size
  /\ ~documents[1].active /\ documents[2].active
  /\ Len(documents[1].chunks) > 0
  /\ lastOp.result.active = 1
  /\ lastOp.result.totalChunks = Len(documents[1].chunks) + Len(documents[2].chunks)

\* The marker of the header line and of the footer line, without line ends.
HeaderMarker == SubSeq(Header, 1, Len(Header) - 1)
FooterMarker == SubSeq(Footer, 2, Len(Footer) - 2)

\* formatContext has returned: its argument and its result.
Formatted == lastOp.op = "formatContext"
FormattedChunks == lastOp.arg
FormattedText == lastOp.result

\* The text begins with the header, ends with the footer, and holds the header
\* marker once and the footer marker once.
OneHeaderOneFooter(text) ==
  /\ Cardinality(Occurrences(text, HeaderMarker)) = 1
  /\ Cardinality(Occurrences(text, FooterMarker)) = 1
  /\ IsPrefix(Header, text)
  /\ IsSuffix(Footer, text)

\* C26: formatContext([]) returns the empty string, and for every non-empty
\* chunk list the result holds exactly one header marker and exactly one footer
\* marker, the header first and the footer last.
C26_OneHeaderOneFooter ==
  Formatted =>
    IF Len(FormattedChunks) = 0 THEN FormattedText = <<>>
    ELSE OneHeaderOneFooter(FormattedText)

\* No chunk handed to formatContext holds a marker in its text.
MarkerFree ==
  \A i \in 1..Len(FormattedChunks) :
    /\ Occurrences(FormattedChunks[i].chunk, HeaderMarker) = {}
    /\ Occurrences(FormattedChunks[i].chunk, FooterMarker) = {}

\* The same for chunk lists whose texts hold no marker.
OneHeaderOneFooterMarkerFree ==
  (Formatted /\ MarkerFree) =>
    IF Len(FormattedChunks) = 0 THEN FormattedText = <<>>
    ELSE OneHeaderOneFooter(FormattedText)

\* piece stands in text from position p on.
StandsAt(text, p, piece) ==
  /\ p + Len(piece) - 1 <= Len(text)
  /\ \A k \in 1..Len(piece) : text[p + k - 1] = piece[k]

DigitSet == {DigitChars[d] : d \in 1..Len(DigitChars)}

\* The last position of the digits that stand in text from position p on
\* (p - 1 when there is none).
DigitRunEnd(text, p) ==
  LET stops == {q \in p..(Len(text) + 1) : q > Len(text) \/ text[q] \notin DigitSet}
  IN MinOf(stops) - 1

\* The number that the digits text[a..b] write in base ten.
RECURSIVE DigitValue(_, _, _)
DigitValue(text, a, b) ==
  IF b < a THEN 0
  ELSE LET d == CHOOSE v \in 0..(Len(DigitChars) - 1) : DigitChars[v + 1] = text[b]
       IN DigitValue(text, a, b - 1) * Len(DigitChars) + d

\* The position after the block of item when that block stands in text at p:
\* its label with the Document name and the number chunkIndex + 1, a line end,
\* then the chunk text.  0 when no such block stands there.
BlockEnd(text, p, item) ==
  LET name == NameText(item.docName)
      p1 == p + Len(SourceOpen)
      p2 == p1 + Len(name)
      p3 == p2 + Len(SourceChunk)
      p4 == DigitRunEnd(text, p3) + 1
      p5 == p4 + Len(SourceClose)
  IN IF /\ StandsAt(text, p, SourceOpen)
        /\ StandsAt(text, p1, name)
        /\ StandsAt(text, p2, SourceChunk)
        /\ p4 > p3
        /\ text[p3] # DigitChars[1]
        /\ DigitValue(text, p3, p4 - 1) = item.chunkIndex + 1
        /\ StandsAt(text, p4, SourceClose)
        /\ StandsAt(text, p5, item.chunk)
     THEN p5 + Len(item.chunk)
     ELSE 0

\* From position p on text holds the blocks of chunks k, k + 1, ... in that
\* order, one for each, with the separator between two blocks and the footer
\* after the last.
RECURSIVE BlocksFrom(_, _, _, _)
BlocksFrom(text, p, chunks, k) ==
  LET next == BlockEnd(text, p, chunks[k])
  IN /\ next # 0
     /\ IF k = Len(chunks)
        THEN StandsAt(text, next, Footer) /\ next + Len(Footer) - 1 = Len(text)
        ELSE /\ StandsAt(text, next, Separator)
             /\ BlocksFrom(text, next + Len(Separator), chunks, k + 1)

\* C27: formatContext renders one block for each input chunk, in input order;
\* the block of a chunk with 0-based chunkIndex i is labelled with the chunk's
\* Document name and the 1-based number i + 1 and is followed by the chunk text.
C27_BlocksInOrder ==
  (Formatted /\ Len(FormattedChunks) > 0) =>
    /\ StandsAt(FormattedText, 1, Header)
    /\ BlocksFrom(FormattedText, Len(Header) + 1, FormattedChunks, 1)

\* C27 witness: three chunks of two Documents have been formatted, the first
\* of them with a chunkIndex that makes a label of two digits.
C27_Witness ==
  /\ Formatted
  /\ Len(FormattedChunks) = 3
  /\ FormattedChunks[1].chunkIndex + 1 >= Len(DigitChars)
  /\ FormattedChunks[2].docName # FormattedChunks[1].docName
  /\ FormattedChunks[3].docName = FormattedChunks[1].docName
  /\ FormattedChunks[3].chunkIndex < FormattedChunks[1].chunkIndex

\* A step in which addDocument returns a Document has appended that Document
\* and nothing else at the end of the collection; the Document is active, its
\* content is the text of the file and its chunks are what the chunker gives
\* on that content; every listener has been called with the new collection.
AddInMemory ==
  (lastOp'.op = "addDocument" /\ lastOp'.error = None) =>
    /\ Len(documents') = Len(documents) + 1
    /\ \A i \in 1..Len(documents) : documents'[i] = documents[i]
    /\ documents'[Len(documents')] = lastOp'.result
    /\ lastOp'.result.active
    /\ \E file \in pending :
         /\ lastOp'.result.name = file.name
         /\ lastOp'.result.content = file.content
    /\ lastOp'.result.chunks
         = ChunkText(lastOp'.result.content, AddChunkSize, DefaultOverlap)
    /\ NotifiedOf(lastOp'.calls, listeners, documents')

\* C28: a successful addDocument appends exactly one new Document at the end
\* of the collection, active and with the chunks the chunker gives on its
\* content, leaves the Documents that were there unchanged and in order,
\* persists, notifies the listeners and returns that Document.
C28_AddDocument ==
  /\ [][AddInMemory]_vars
  /\ []PersistedAfter("addDocument")

\* The part of C28 that does not depend on the write to localStorage, with the
\* persisted collection equal to the one in memory whenever the write went through.
AddDocumentInMemory ==
  /\ [][AddInMemory]_vars
  /\ [](lastOp.wrote => PersistedAfter("addDocument"))

\* The Documents that were in the collection before the step and are in it
\* after: all of them, but for the one an addDocument has just appended.
Kept ==
  IF lastOp'.op = "addDocument" /\ lastOp'.error = None
  THEN SubSeq(documents', 1, Len(documents') - 1)
  ELSE documents'

\* Every Document that is in the collection after a step of the store was in
\* it before, in the same order and with the same id, name, type, size,
\* content, chunks and addedAt; its active flag differs only when the step is
\* a toggleDocument of its id.
IngestedKept ==
  \E keep \in SUBSET (1..Len(documents)) :
    /\ Cardinality(keep) = Len(Kept)
    /\ \A i \in keep :
         LET after == Kept[Cardinality({k \in keep : k <= i})]
         IN /\ DOMAIN after = DOMAIN documents[i]
            /\ SameIngested(after, documents[i])
            /\ after.active # documents[i].active
                 => (lastOp'.op = "toggleDocument" /\ lastOp'.arg = after.id)

\* C29: once a Document is in the collection no store operation (adding or
\* removing other Documents, toggle, retrieve, getStats, notification) changes
\* its id, name, type, size, content, chunks or addedAt; only its active flag
\* changes, and only through toggleDocument.
C29_IngestedImmutable == [][IngestedKept]_vars

\* C29 witness: a Document has just been switched off by toggleDocument beside
\* another Document; its content and chunks are those it was ingested with.
C29_Witness ==
  /\ lastOp.op = "toggleDocument" /\ lastOp.saved
  /\ Len(documents) = 2 /\ Len(listeners) = 1
  /\ LET i == FindIndex(documents, lastOp.arg)
     IN /\ ~documents[i].active
        /\ Len(documents[i].chunks) > 0
        /\ SameIngested(documents[i], lastOp.before[i])

\* A store constructed when nothing is persisted starts with the empty
\* collection.
EmptyWhenNothingStored ==
  (lastOp.op = "constructor" /\ ~persisted.present) => documents = <<>>

\* The step that constructs a store on the localStorage of the store before it
\* gives the collection that store had: the same Documents, in the same order,
\* with the same active flags.
RestartRestores ==
  (lastOp'.op = "constructor" /\ persisted.present) => documents' = documents

\* C30: a store starts with the empty collection when nothing is persisted,
\* and otherwise with the collection the earlier store had after its last
\* completed mutation.
C30_RestartRoundTrip ==
  /\ []EmptyWhenNothingStored
  /\ [][RestartRestores]_vars

\* The same as long as no write to localStorage has failed.
RestartRoundTripWritten ==
  /\ []EmptyWhenNothingStored
  /\ [][writeFailures = 0 => RestartRestores]_vars

\* The last n of the words: none of them when n is zero, all of them when
\* there are no more than n.
LastWords(words, n) ==
  SubSeq(words, IF Len(words) > n THEN Len(words) - n + 1 ELSE 1, Len(words))

\* The seed of the closing rule: the last floor(overlap / 5) words of the
\* buffer just closed, joined by single spaces, and a trailing space.
RuleSeed(buffer, overlap) ==
  JoinSpace(LastWords(SplitSpace(buffer), overlap \div CharsPerWord)) \o <<" ">>

\* The chunks that the closing rule gives on the sentences: a sentence closes
\* the buffer exactly when the buffer is not empty and the two together are
\* longer than chunkSize; the closed buffer is emitted trimmed, the next one
\* is its seed and then the sentence; what is left at the end is emitted
\* trimmed when it holds anything.
RECURSIVE RuleChunks(_, _, _, _, _)
RuleChunks(sentences, buffer, emitted, chunkSize, overlap) ==
  IF sentences = <<>>
  THEN IF Trim(buffer) # <<>> THEN Append(emitted, Trim(buffer)) ELSE emitted
  ELSE LET sentence == Head(sentences)
           closes == buffer # <<>> /\ Len(buffer) + Len(sentence) > chunkSize
       IN IF closes
          THEN RuleChunks(Tail(sentences), RuleSeed(buffer, overlap) \o sentence,
                          Append(emitted, Trim(buffer)), chunkSize, overlap)
          ELSE RuleChunks(Tail(sentences), buffer \o sentence, emitted,
                          chunkSize, overlap)

\* The chunks of the last chunkText call are those of the closing rule.
FollowsClosingRule ==
  lastOp.result
    = RuleChunks(Sentences(ChunkedText), <<>>, <<>>, ChunkedSize, ChunkedOverlap)

\* C31: chunkText closes the buffer before a sentence exactly when the buffer
\* is not empty and len(buffer) + len(sentence) > chunkSize, and seeds the next
\* buffer with the last floor(overlap / 5) space-separated words of the closed
\* one, joined by single spaces, plus a trailing space, before the sentence.
C31_ClosingRule == Chunked => FollowsClosingRule

\* The closing rule whenever floor(overlap / 5) is at least one word.
ClosingRuleFromFive ==
  (Chunked /\ ChunkedOverlap >= CharsPerWord) => FollowsClosingRule

\* C32: however overlapping addDocument calls interleave with removeDocument,
\* toggleDocument and clearAll calls, as long as no write has failed, once no
\* call is in flight the persisted snapshot is the in-memory collection.
C32_SettledSnapshot ==
  (pending = {} /\ writeFailures = 0) => LoadDocuments(persisted) = documents

\* C32 witness: nothing is in flight and no write has failed; the last call
\* was an upload that completed, and its Document stands in the collection
\* behind a Document that was switched off after its own upload.
C32_Witness ==
  /\ pending = {} /\ writeFailures = 0
  /\ lastOp.op = "addDocument" /\ lastOp.error = None
  /\ Len(documents) = 2
  /\ ~documents[1].active
  /\ documents[2] = lastOp.result
  /\ LoadDocuments(persisted) = documents

\* A step of clearAll or removeDocument leaves every suspended upload
\* suspended; an upload that completes appends its Document to the collection
\* as it is at that moment; completing right after clearAll, its Document is
\* the whole collection.
SurvivesClearing ==
  /\ lastOp'.op \in {"clearAll", "removeDocument"} => pending' = pending
  /\ (lastOp'.op = "addDocument" /\ lastOp'.error = None)
       => documents' = Append(documents, lastOp'.result)
  /\ (lastOp.op = "clearAll" /\ lastOp'.op = "addDocument" /\ lastOp'.error = None)
       => documents' = <<lastOp'.result>>

\* C33: an addDocument call suspended on its file read is not cancelled by
\* clearAll or removeDocument; when the read succeeds its Document is appended
\* to the collection as it then is, so after clearAll and then the completion
\* the collection holds exactly that Document.
C33_NotCancelled == [][SurvivesClearing]_vars

\* C33 witness: clearAll has run, written the empty collection and notified a
\* listener while an upload was suspended on its file read, and the upload is
\* still suspended.
C33_Witness ==
  /\ lastOp.op = "clearAll" /\ lastOp.wrote
  /\ Len(lastOp.calls) > 0 /\ documents = <<>>
  /\ pending # {}

\* The step has changed the collection as the call it records asks: an upload
\* appended its Document, a removal took out the Documents of the id, a toggle
\* flipped the flag of the Document found, clearAll emptied the collection.
MutatedAsAsked ==
  CASE lastOp'.op = "addDocument" -> documents' = Append(documents, lastOp'.result)
    [] lastOp'.op = "removeDocument" ->
         RemovedFrom(documents, documents', lastOp'.arg)
    [] lastOp'.op = "toggleDocument" ->
         LET i == FindIndex(documents, lastOp'.arg)
         IN /\ i # 0
            /\ Len(documents') = Len(documents)
            /\ documents'[i].active = ~documents[i].active
            /\ \A j \in 1..Len(documents) : j # i => documents'[j] = documents[j]
    [] lastOp'.op = "clearAll" -> documents' = <<>>
    [] OTHER -> FALSE

\* A step whose save met a failing write returns normally, has mutated the
\* collection, has notified every listener of it, and leaves the stored item
\* as it was.
WriteFailureTolerated ==
  (lastOp'.saved /\ ~lastOp'.wrote) =>
    /\ lastOp'.error = None
    /\ MutatedAsAsked
    /\ NotifiedOf(lastOp'.calls, listeners, documents')
    /\ persisted' = persisted

\* C34: when the write to localStorage fails inside Storage.set, the mutating
\* operation still completes without raising, the in-memory mutation is kept
\* and the listeners are notified, while the persisted snapshot keeps its
\* previous value.
C34_WriteFailureTolerated == [][WriteFailureTolerated]_vars

\* C34 witness: a removal whose write failed has returned normally and notified
\* a listener, and the stored item still holds the collection from before it.
C34_Witness ==
  /\ lastOp.op = "removeDocument" /\ lastOp.saved /\ ~lastOp.wrote
  /\ lastOp.error = None
  /\ Len(lastOp.calls) > 0
  /\ persisted.present
  /\ Len(LoadDocuments(persisted)) > Len(documents)

\* No Document of the collection carries this id.
UnknownId(docs, docId) == \A i \in 1..Len(docs) : docs[i].id # docId

\* A toggleDocument step on an id that no Document carries returns normally
\* and leaves the collection and the stored item as they were, without a write
\* attempted or a listener called.
UnknownToggleIdle ==
  (lastOp'.op = "toggleDocument" /\ UnknownId(documents, lastOp'.arg)) =>
    /\ lastOp'.error = None
    /\ documents' = documents
    /\ persisted' = persisted
    /\ writeFailures' = writeFailures
    /\ ~lastOp'.saved
    /\ lastOp'.calls = <<>>

\* The toggleDocument call that returned last, on an id that none of the
\* Documents it found carries, returned normally, left the collection as it
\* found it, did not run saveDocuments and called no listener.
UnknownToggleReturned ==
  (lastOp.op = "toggleDocument" /\ UnknownId(lastOp.before, lastOp.arg)) =>
    /\ lastOp.error = None
    /\ documents = lastOp.before
    /\ ~lastOp.saved /\ ~lastOp.wrote
    /\ lastOp.calls = <<>>

\* C35: toggleDocument(id) with an id that matches no Document changes
\* nothing: the collection stays as it is, no write is made and no listener is
\* invoked.
C35_UnknownToggle == UnknownToggleReturned

\* The same on the steps: the stored item and the count of failed writes are
\* also what they were.
UnknownToggleSteps == [][UnknownToggleIdle]_vars

\* C35 witness: toggleDocument has returned on an id that none of the
\* Documents carries, with a Document in the collection and a listener
\* registered, and called no listener.
C35_Witness ==
  /\ lastOp.op = "toggleDocument"
  /\ UnknownId(documents, lastOp.arg)
  /\ lastOp.before = documents
  /\ Len(documents) > 0
  /\ Len(listeners) > 0
  /\ lastOp.calls = <<>>

\* Every listener the last call invoked was passed the collection as the
\* mutation left it, and found that collection stored.
NotifiedAfterWrite ==
  \A c \in 1..Len(lastOp.calls) :
    /\ lastOp.calls[c].arg = documents
    /\ LoadDocuments(lastOp.calls[c].stored) = lastOp.calls[c].arg

\* C36: a mutating operation mutates the collection, then writes it, then
\* notifies: whenever its write succeeds, each listener it invokes is passed
\* the mutated collection and the persisted snapshot is already that
\* collection.
C36_MutateWriteNotify ==
  (lastOp.op \in MutatingOps /\ lastOp.saved /\ lastOp.wrote) => NotifiedAfterWrite

\* C36 witness: a toggle whose write succeeded has invoked two listeners on a
\* collection of two Documents, and the item each found stored is the one
\* stored now.
C36_Witness ==
  /\ lastOp.op = "toggleDocument" /\ lastOp.saved /\ lastOp.wrote
  /\ Len(lastOp.calls) = 2
  /\ Len(documents) = 2
  /\ \A c \in 1..Len(lastOp.calls) : lastOp.calls[c].stored = persisted

\* How many of the invocations went to this listener.
CallsTo(calls, l) == Cardinality({c \in 1..Len(calls) : calls[c].listener = l})

\* A call that ran saveDocuments invoked every registered listener once and
\* no other listener.
InvokedOncePerRegistration ==
  lastOp.saved =>
    \A l \in ListenerIds :
      CallsTo(lastOp.calls, l) = IF l \in Registered THEN 1 ELSE 0

\* Registration is membership in a set: addListener puts the listener in,
\* once however often it is added; removeListener takes it out; a newly
\* constructed store has none; no other call changes the registrations.
RegistrationIsASet ==
  /\ Len(listeners') = Cardinality(Registered')
  /\ Registered' =
       CASE lastOp'.op = "addListener" -> Registered \cup {lastOp'.arg}
         [] lastOp'.op = "removeListener" -> Registered \ {lastOp'.arg}
         [] lastOp'.op = "constructor" -> {}
         [] OTHER -> Registered

\* C37: listener registration is a set: a registered listener is invoked
\* exactly once per notification, also after repeated addListener calls, and a
\* listener is not invoked after removeListener until it is registered again.
C37_ListenerSet == []InvokedOncePerRegistration /\ [][RegistrationIsASet]_vars

\* C37 witness: addListener has returned on a listener that was registered
\* before another one was, and the listener is still held once, in its place.
C37_Witness ==
  /\ lastOp.op = "addListener"
  /\ Len(listeners) = 2
  /\ listeners[1] = lastOp.arg
  /\ listeners[2] # lastOp.arg

\* The calls that only read.
ReadOps ==
  {"retrieveContext", "getDocuments", "getActiveDocuments", "getDocument",
   "getStats", "formatContext"}

\* A step of a reading call leaves the collection with its flags, the stored
\* item, the registrations and the suspended uploads as they were, writes
\* nothing and invokes no listener.
ReadsOnly ==
  lastOp'.op \in ReadOps =>
    /\ documents' = documents
    /\ persisted' = persisted
    /\ writeFailures' = writeFailures
    /\ listeners' = listeners
    /\ pending' = pending
    /\ ~lastOp'.saved /\ ~lastOp'.wrote
    /\ lastOp'.calls = <<>>

\* C38: retrieveContext, getDocuments, getActiveDocuments, getDocument,
\* getStats and formatContext are read-only: none changes the collection, an
\* activation flag or the persisted snapshot, and none invokes a listener.
C38_ReadOnly == [][ReadsOnly]_vars

\* C38 witness: getActiveDocuments has returned fewer Documents than the
\* collection holds, with a listener registered and the collection stored.
C38_Witness ==
  /\ lastOp.op = "getActiveDocuments"
  /\ Len(lastOp.result) < Len(documents)
  /\ Len(listeners) > 0
  /\ persisted.present
  /\ lastOp.calls = <<>>

\* The last call built the message for the model from a user's message.
Enhanced == lastOp.op \in {"enhanceMessageWithContext", "sendMessage"}

\* What retrieveContext gives on the user's message with the default topK.
EnhancedChunks == RetrieveOutcome(documents, lastOp.arg, DefaultTopK)

\* The message built is the user's message when retrieval returned no chunk,
\* and otherwise the formatted context of the chunks returned, at most
\* DefaultTopK of them, then the label, then the user's message.
BuiltFromRetrieval ==
  IF Len(EnhancedChunks.result) = 0
  THEN lastOp.result = lastOp.arg
  ELSE /\ Len(EnhancedChunks.result) <= DefaultTopK
       /\ lastOp.result
            = FormatContext(EnhancedChunks.result) \o UserQueryLabel \o lastOp.arg

\* C39: the message sent to the model is the user's message unchanged when
\* retrieval returns no chunk (no active Document, or no chunk that scores),
\* and otherwise formatContext of the chunks retrieved, at most the default
\* topK = 3 of them, followed by "User Query: " and the user's message.
C39_PromptEnhancement ==
  Enhanced => (lastOp.error = None /\ BuiltFromRetrieval)

\* The same for the messages on which retrieveContext returns.
PromptEnhancementWhenRetrieved ==
  (Enhanced /\ lastOp.error = None) => BuiltFromRetrieval

\* A message was enhanced with the context of exactly DefaultTopK chunks out
\* of more that score.
EnhancedWithTopK ==
  /\ Enhanced /\ lastOp.error = None
  /\ Len(EnhancedChunks.result) = DefaultTopK
  /\ Len(RetrieveOutcome(documents, lastOp.arg, DefaultTopK + 1).result) > DefaultTopK
  /\ Len(lastOp.result) > Len(lastOp.arg)

====
